---- MODULE Spec2Model ----
(***************************************************************************)
(* Model of the ETL normaliser of vacina-data-visor                        *)
(* (backend/services/etl_normalize.py, backend/etl_normalize.py) and of    *)
(* the HTTP endpoints that aggregate the rows (backend/app.py,             *)
(* backend/routers/previsao_router.py).                                    *)
(*                                                                         *)
(* Text is a sequence of one-character strings.  Python's None is the      *)
(* value None below, which is no text.  A dict is a function whose DOMAIN  *)
(* is the set of keys it holds.                                            *)
(***************************************************************************)
EXTENDS Integers, Sequences, FiniteSets, TLC

\* resource: the content of the mappings file; input: the record of the input
\* file that main() normalises; pc: where main() is; err: the exception that
\* ended main(), "none" if none; mappings: the loaded rule list; rec: the
\* record normalize_record returned (or was working on when it raised);
\* via: the pass whose return statement ended normalize_record
VARIABLES resource, input, pc, err, mappings, rec, via,
\* threads: the normalize_record calls that run concurrently over the loaded
\* rule list, each with the record it works on and the statement it is at
          threads,
\* db_pool: app.db_pool, whether the asyncpg pool exists; environ: os.environ;
\* sources: what the database, the Supabase REST endpoint and the local file
\* hold and how the REST endpoint answers; request: the HTTP request being
\* served (None if none); response: its response (None if not yet);
\* consulted: the data sources and RPCs the handler called, in order
          db_pool, environ, sources, request, response, consulted

etlVars == <<resource, input, pc, err, mappings, rec, via>>

callVars == <<threads>>

apiVars == <<db_pool, environ, sources, request, response, consulted>>

vars == <<etlVars, callVars, apiVars>>

---------------------------------------------------------------------------
(* Python values *)

None == <<"None">>

IsNone(v) == v = None

\* bool(v) of a str-or-None value: None and "" are falsy
Truthy(v) == ~IsNone(v) /\ v # <<>>

\* Python's `a or b`
Or(a, b) == IF Truthy(a) THEN a ELSE b

\* dict.get(k) with the default None
Get(d, k) == IF k \in DOMAIN d THEN d[k] ELSE None

\* a variant of Put that builds a new dict holding the key k alone
PutAlone(d, k, v) == [x \in {k} |-> v]

\* d[k] = v
Put(d, k, v) == [x \in (DOMAIN d) \cup {k} |-> IF x = k THEN v ELSE d[x]]

---------------------------------------------------------------------------
(* str methods *)

UpperOf ==
  [a |-> "A", b |-> "B", c |-> "C", d |-> "D", e |-> "E", f |-> "F", g |-> "G",
   h |-> "H", i |-> "I", j |-> "J", k |-> "K", l |-> "L", m |-> "M", n |-> "N",
   o |-> "O", p |-> "P", q |-> "Q", r |-> "R", s |-> "S", t |-> "T", u |-> "U",
   v |-> "V", w |-> "W", x |-> "X", y |-> "Y", z |-> "Z"]

LowerOf ==
  [A |-> "a", B |-> "b", C |-> "c", D |-> "d", E |-> "e", F |-> "f", G |-> "g",
   H |-> "h", I |-> "i", J |-> "j", K |-> "k", L |-> "l", M |-> "m", N |-> "n",
   O |-> "o", P |-> "p", Q |-> "q", R |-> "r", S |-> "s", T |-> "t", U |-> "u",
   V |-> "v", W |-> "w", X |-> "x", Y |-> "y", Z |-> "z"]

UpperChar(c) == IF c \in DOMAIN UpperOf THEN UpperOf[c] ELSE c

LowerChar(c) == IF c \in DOMAIN LowerOf THEN LowerOf[c] ELSE c

\* str.upper()
Upper(s) == SubSeq([i \in 1..Len(s) |-> UpperChar(s[i])], 1, Len(s))

\* str.lower()
Lower(s) == SubSeq([i \in 1..Len(s) |-> LowerChar(s[i])], 1, Len(s))

\* the characters str.strip() removes and the regex class \s matches
IsSpace(c) == c \in {" ", "\t", "\n", "\r"}

\* the regex class \d
IsDigit(c) == c \in {"0", "1", "2", "3", "4", "5", "6", "7", "8", "9"}

\* the regex class [A-Z]
IsAZ(c) == c \in DOMAIN LowerOf

\* s[from:] (1-based from)
Drop(s, from) == SubSeq(s, from, Len(s))

\* the least and the greatest element of a non-empty set of integers
Min(S) == CHOOSE x \in S : \A y \in S : x <= y

Max(S) == CHOOSE x \in S : \A y \in S : y <= x

\* s[lo..hi] for the set keep of the indexes to keep, "" if it is empty
Between(s, keep) == IF keep = {} THEN <<>> ELSE SubSeq(s, Min(keep), Max(keep))

\* str.strip()
Strip(s) == Between(s, {i \in 1..Len(s) : ~IsSpace(s[i])})

\* whether sub occurs in s starting at index i
OccursAt(s, sub, i) ==
  /\ i >= 1
  /\ i + Len(sub) - 1 <= Len(s)
  /\ SubSeq(s, i, i + Len(sub) - 1) = sub

\* Python's `sub in s`
Contains(s, sub) == \E i \in 1..(Len(s) + 1) : OccursAt(s, sub, i)

---------------------------------------------------------------------------
(* re.search(pattern, text, flags=re.IGNORECASE) for a rule's pattern.       *)
(* The patterns of the model are written in this part of the regex syntax:   *)
(* literal characters, "^" as the first character, "$" as the last one,      *)
(* parentheses, which group when they balance and make the pattern invalid   *)
(* (re.error) when they do not, and "[", which opens a character set that no *)
(* pattern of the model closes (re.error: unterminated character set).       *)
(* A repetition count "{n}" is modelled for its size only: the parser        *)
(* raises OverflowError when n reaches MAXREPEAT.                            *)

\* nesting depth of the parentheses after each prefix of p
RECURSIVE ParenDepth(_, _)
ParenDepth(p, n) ==
  IF n = 0 THEN 0
  ELSE ParenDepth(p, n - 1)
       + (IF p[n] = "(" THEN 1 ELSE IF p[n] = ")" THEN -1 ELSE 0)

\* re.compile(p) succeeds; otherwise it raises re.error
IsValidRegex(p) ==
  /\ \A n \in 1..Len(p) : ParenDepth(p, n) >= 0
  /\ ParenDepth(p, Len(p)) = 0
  /\ \A n \in 1..Len(p) : p[n] # "["

StartAnchored(p) == Len(p) >= 1 /\ p[1] = "^"

EndAnchored(p) == Len(p) >= 1 /\ p[Len(p)] = "$"

IsLiteralChar(c) == c \notin {"(", ")"}

\* p without a leading "^"
AfterStartAnchor(p) == IF StartAnchored(p) THEN Drop(p, 2) ELSE p

\* p without a trailing "$"
BeforeEndAnchor(p) == IF EndAnchored(p) THEN SubSeq(p, 1, Len(p) - 1) ELSE p

\* the literal a valid pattern has to find: anchors and grouping removed
RegexBody(p) == SelectSeq(BeforeEndAnchor(AfterStartAnchor(p)), IsLiteralChar)

\* the positions where "$" matches: the end, and before a final newline
AtEnd(text, i) ==
  \/ i = Len(text) + 1
  \/ i = Len(text) /\ text[i] = "\n"

\* the literal body (letter case folded) occurs in t (folded) where the
\* anchors of p allow
BodyFoundIn(p, body, t) ==
  \E i \in 1..(Len(t) + 1) :
    /\ OccursAt(t, body, i)
    /\ StartAnchored(p) => i = 1
    /\ EndAnchored(p) => AtEnd(t, i + Len(body))

\* a variant of RegexSearchI without re.IGNORECASE
RegexSearchExact(p, text) == BodyFoundIn(p, RegexBody(p), text)

\* a valid pattern p matches somewhere in text, letter case ignored
RegexSearchI(p, text) == BodyFoundIn(p, Upper(RegexBody(p)), Upper(text))

---------------------------------------------------------------------------
(* load_mappings *)

\* the sort key: x.get("priority", 100)
DefaultPriority == 100

PriorityKey(x) == IF "priority" \in DOMAIN x THEN x["priority"] ELSE DefaultPriority

\* a variant of InsertByKey that puts x before the elements of equal key:
\* what an unstable sort may do
InsertBeforeEqual(sorted, x) ==
  SubSeq(SelectSeq(sorted, LAMBDA y : PriorityKey(y) < PriorityKey(x)) \o <<x>>
           \o SelectSeq(sorted, LAMBDA y : PriorityKey(y) >= PriorityKey(x)),
         1, Len(sorted) + 1)

\* x put into the sorted list after every element whose key is <= its own
RECURSIVE InsertByKey(_, _)
InsertByKey(sorted, x) ==
  IF sorted = <<>> THEN <<x>>
  ELSE IF PriorityKey(Head(sorted)) <= PriorityKey(x)
       THEN <<Head(sorted)>> \o InsertByKey(Tail(sorted), x)
       ELSE <<x>> \o sorted

\* a variant of SortedByPriority that keeps the declaration order
Unsorted(data) == data

\* sorted(data, key=...): Python's sort is stable
RECURSIVE SortedByPriority(_)
SortedByPriority(data) ==
  IF data = <<>> THEN <<>>
  ELSE InsertByKey(SortedByPriority(SubSeq(data, 1, Len(data) - 1)), data[Len(data)])

Raise(exc) == [exc |-> exc, val |-> <<>>]

Return(v) == [exc |-> "none", val |-> v]

\* load_mappings(path) on the resource at path.  A resource is
\* [kind, items]: kind "missing" (no file), "unparsable" (not JSON),
\* "scalar" (a JSON number, boolean or null), "object" (items: its keys),
\* "string" (items: its characters) or "array" (items: its rule dicts).
load_mappings(res) ==
  CASE res.kind = "missing"    -> Raise("FileNotFoundError")
    [] res.kind = "unparsable" -> Raise("JSONDecodeError")
    [] res.kind = "scalar"     -> Raise("TypeError")
    [] res.kind \in {"object", "string"} ->
         IF res.items = <<>> THEN Return(<<>>) ELSE Raise("AttributeError")
    [] res.kind = "array"      -> Return(SortedByPriority(res.items))

---------------------------------------------------------------------------
(* _normalize_tx_sigla *)

SES == <<"S", "E", "S">>

\* the characters of the class [\-\s./]
IsSesSeparator(c) == c \in {"-", ".", "/"} \/ IsSpace(c)

\* [\-\s./]* from index i of s: the least index >= i of s whose character
\* is no separator (Len(s) + 1 if none)
SkipSesSeparators(s, i) ==
  IF i > Len(s) THEN i
  ELSE Min({j \in i..(Len(s) + 1) : j = Len(s) + 1 \/ ~IsSesSeparator(s[j])})

\* a variant of StripSesPrefix that removes the letters SES only
StripSesOnly(txs) == IF OccursAt(txs, SES, 1) THEN Drop(txs, 4) ELSE txs

\* re.sub(r"^SES[\-\s./]*", "", txs)
StripSesPrefix(txs) ==
  IF OccursAt(txs, SES, 1) THEN Drop(txs, SkipSesSeparators(txs, 4)) ELSE txs

\* the starts of the matches of r"([A-Z]{2})$" in txs
TwoLetterSuffixes(txs) ==
  {i \in 1..(Len(txs) - 1) : IsAZ(txs[i]) /\ IsAZ(txs[i + 1]) /\ AtEnd(txs, i + 2)}

\* m = re.search(r"([A-Z]{2})$", txs): m.group(1) if m, else the fallback
\* txs[:2] if len(txs) >= 2 else txs
SiglaCode(txs, found) ==
  IF found # {} THEN SubSeq(txs, Min(found), Min(found) + 1)
  ELSE IF Len(txs) >= 2 THEN SubSeq(txs, 1, 2) ELSE txs

\* the code of a non-empty raw value
SiglaOfText(txs) == SiglaCode(txs, TwoLetterSuffixes(txs))

\* txs = r.get("TX_SIGLA") or r.get("tx_sigla") or ""
SiglaText(r) == Or(Or(Get(r, "TX_SIGLA"), Get(r, "tx_sigla")), <<>>)

\* the value stored in r["tx_sigla_norm"] for the raw value raw
SiglaNormOf(raw) ==
  IF ~Truthy(raw) THEN None ELSE SiglaOfText(StripSesPrefix(Upper(Strip(raw))))

SiglaNorm(r) == SiglaNormOf(SiglaText(r))

_normalize_tx_sigla(r) == Put(r, "tx_sigla_norm", SiglaNorm(r))

\* a JSON number other than 0 as the value of a field
JsonInt == <<"int">>

---------------------------------------------------------------------------
(* normalize_record: the insumo part *)

VACINA == <<"V", "A", "C", "I", "N", "A">>

DILUENTE == <<"D", "I", "L", "U", "E", "N", "T", "E">>

CovidLabel == <<"C", "o", "v", "i", "d", "-", "1", "9">>

\* the largest repetition count plus one of the regex parser, as a text
MAXREPEAT == <<"4", "2", "9", "4", "9", "6", "7", "2", "9", "5">>

\* the decimal text d without its leading zeros
RECURSIVE StripZeros(_)
StripZeros(d) ==
  IF d # <<>> /\ Head(d) = "0" THEN StripZeros(Tail(d)) ELSE d

DigitValue(c) == CHOOSE n \in 0..9 : <<"0", "1", "2", "3", "4", "5", "6", "7", "8", "9">>[n + 1] = c

\* a >= b for decimal texts of the same length
RECURSIVE DigitsGE(_, _)
DigitsGE(a, b) ==
  IF a = <<>> THEN TRUE
  ELSE IF Head(a) # Head(b) THEN DigitValue(Head(a)) > DigitValue(Head(b))
  ELSE DigitsGE(Tail(a), Tail(b))

\* int(a) >= int(b) for decimal texts without leading zeros
AtLeast(a, b) == Len(a) > Len(b) \/ (Len(a) = Len(b) /\ DigitsGE(a, b))

\* the counts n of the repetitions "{n}" written in the pattern p
RepeatCounts(p) ==
  {SubSeq(p, ij[1] + 1, ij[2] - 1) :
     ij \in {x \in (1..Len(p)) \X (1..Len(p)) :
               /\ x[1] + 1 < x[2]
               /\ p[x[1]] = "{" /\ p[x[2]] = "}"
               /\ \A k \in (x[1] + 1)..(x[2] - 1) : IsDigit(p[k])}}

\* re.search(p, ...) raises OverflowError ("the repetition number is too
\* large"), which is no re.error
RepeatOverflows(p) ==
  \E d \in RepeatCounts(p) : AtLeast(StripZeros(d), MAXREPEAT)

\* a variant of RuleMatches in which an invalid pattern matches nothing
RegexOnly(pattern, text) == IsValidRegex(pattern) /\ RegexSearchI(pattern, text)

\* one rule against a text: re.search(pattern, text, flags=re.IGNORECASE),
\* and on re.error `pattern.lower() in text.lower()`
RuleMatches(pattern, text) ==
  IF IsValidRegex(pattern) THEN RegexSearchI(pattern, text)
  ELSE Contains(Lower(text), Lower(pattern))

NoMatch == [kind |-> "nomatch", label |-> None, index |-> 0]

\* the loop `for m in mappings` from rule i on: the first rule that matches
\* gives its label; a rule without a pattern makes re.search raise
\* TypeError, a pattern with too large a repetition count OverflowError,
\* and `except re.error` catches neither
RECURSIVE ScanRules(_, _, _)
ScanRules(ms, text, i) ==
  IF i > Len(ms) THEN NoMatch
  ELSE LET pattern == Get(ms[i], "pattern")
       IN  IF IsNone(pattern)
           THEN [kind |-> "raise", label |-> None, index |-> i]
           ELSE IF RepeatOverflows(pattern)
           THEN [kind |-> "overflow", label |-> None, index |-> i]
           ELSE IF RuleMatches(pattern, text)
           THEN [kind |-> "match", label |-> Get(ms[i], "vacina_normalizada"),
                 index |-> i]
           ELSE ScanRules(ms, text, i + 1)

\* the direct pass: the rules against the raw text
DirectPass(ms, tx) == ScanRules(ms, tx, 1)

\* the length of the keyword (?:P/|PARA|CONTRA) at index j of s, 0 if none
KeywordLenAt(s, j) ==
  IF OccursAt(s, <<"P", "/">>, j) THEN 2
  ELSE IF OccursAt(s, <<"P", "A", "R", "A">>, j) THEN 4
  ELSE IF OccursAt(s, <<"C", "O", "N", "T", "R", "A">>, j) THEN 6
  ELSE 0

\* \s* from index i of s: the least index >= i of s whose character is no
\* whitespace (Len(s) + 1 if none)
SkipSpaces(s, i) ==
  IF i > Len(s) THEN i
  ELSE Min({j \in i..(Len(s) + 1) : j = Len(s) + 1 \/ ~IsSpace(s[j])})

\* where the optional group ends when its keyword starts at j (k = 0: the
\* group is skipped and group 1 starts at i)
AfterKeyword(s, i, j, k) == IF k = 0 THEN i ELSE SkipSpaces(s, j + k)

AfterSpaces(s, i, j) == AfterKeyword(s, i, j, KeywordLenAt(s, j))

\* where group 1 starts when VACINA ends just before index i: after the
\* optional (?:\s*(?:P/|PARA|CONTRA)\s*), matched greedily
AfterOptional(s, i) == AfterSpaces(s, i, SkipSpaces(s, i))

\* (.*)$ can match from index r: no newline from r on but a final one
RestOnOneLine(s, r) == \A q \in r..(Len(s) - 1) : s[q] # "\n"

\* the starts of the VACINA from which the whole pattern matches
VacinaMatches(u) ==
  {i \in 1..Len(u) :
     OccursAt(u, VACINA, i) /\ RestOnOneLine(u, AfterOptional(u, i + Len(VACINA)))}

\* the end of group 1: (.*) stops before a final newline
LastOfGroup(s) == IF Len(s) >= 1 /\ s[Len(s)] = "\n" THEN Len(s) - 1 ELSE Len(s)

VacinaGroup(s, u, at) ==
  IF at = {} THEN [found |-> FALSE, group1 |-> <<>>]
  ELSE [found |-> TRUE,
        group1 |-> SubSeq(s, AfterOptional(u, Min(at) + Len(VACINA)), LastOfGroup(s))]

VacinaSearchU(s, u) == VacinaGroup(s, u, VacinaMatches(u))

\* re.search(r"VACINA(?:\s*(?:P/|PARA|CONTRA)\s*)?(.*)$", s, re.IGNORECASE):
\* [found, group1] for the leftmost VACINA from which the pattern matches
VacinaSearch(s) == VacinaSearchU(s, Upper(s))

\* the index of the first newline of s at or after p (Len(s)+1 if none)
LineEndFrom(s, p) ==
  IF p > Len(s) THEN p
  ELSE Min({j \in p..(Len(s) + 1) : j = Len(s) + 1 \/ s[j] = "\n"})

\* the starts of the DILUENTE in u, the text with its letter case folded
DiluenteStartsU(u) == {q \in 1..Len(u) : OccursAt(u, DILUENTE, q)}

DiluenteStarts(s) == DiluenteStartsU(Upper(s))

\* the DILUENTE (of occ) that ".*DILUENTE" reaches from p: no newline between
Reach(s, occ, p) ==
  {q \in occ : q >= p /\ q + Len(DILUENTE) - 1 < LineEndFrom(s, p)}

\* the first index after the match that starts at p: ".*" is greedy
MatchEnd(s, occ, p) == Max(Reach(s, occ, p)) + Len(DILUENTE)

\* [from, to): the leftmost match of r".*DILUENTE.*?" in s; from = 0 if none
FirstDiluenteMatch(s, occ, starts) ==
  IF starts = {} THEN [from |-> 0, to |-> 0]
  ELSE [from |-> Min(starts), to |-> MatchEnd(s, occ, Min(starts))]

DiluenteMatchIn(s, occ) ==
  FirstDiluenteMatch(s, occ, {p \in 1..Len(s) : Reach(s, occ, p) # {}})

DiluenteMatch(s) == DiluenteMatchIn(s, DiluenteStarts(s))

\* re.sub(r".*DILUENTE.*?", "", s, flags=re.IGNORECASE): every match removed;
\* a match starts at the leftmost index from which ".*" reaches a DILUENTE
\* without crossing a newline and ends with the last DILUENTE it reaches
RECURSIVE RemoveMatches(_, _)
RemoveMatches(s, m) ==
  IF m.from = 0 THEN s
  ELSE SubSeq(s, 1, m.from - 1)
       \o RemoveMatches(Drop(s, m.to), DiluenteMatch(Drop(s, m.to)))

RemoveThroughDiluente(s) == RemoveMatches(s, DiluenteMatch(s))

\* candidate = m.group(1).strip() if m, else the re.sub(...).strip()
CandidateOf(tx_upper, m) ==
  IF m.found THEN Strip(m.group1) ELSE Strip(RemoveThroughDiluente(tx_upper))

\* the candidate of the diluent pass before cleaning
DiluentCandidate(tx_upper) == CandidateOf(tx_upper, VacinaSearch(tx_upper))

\* a variant of CleanCandidate that only trims
TrimOnly(candidate) == Strip(candidate)

\* the characters re.sub(r"[\-\(\)\,\d]", "", candidate) keeps
IsKeptByCleaning(c) == c \notin {"-", "(", ")", ","} /\ ~IsDigit(c)

CleanCandidate(candidate) == Strip(SelectSeq(candidate, IsKeptByCleaning))

\* `if candidate:` and the rules against the cleaned candidate
RematchCandidate(ms, candidate) ==
  IF candidate # <<>> THEN ScanRules(ms, CleanCandidate(candidate), 1) ELSE NoMatch

\* a variant of DiluentPassU without the test for DILUENTE
DiluentPassUnguarded(ms, tx_upper) == RematchCandidate(ms, DiluentCandidate(tx_upper))

\* `if "DILUENTE" in tx_upper:` and what it guards
DiluentPassU(ms, tx_upper) ==
  IF Contains(tx_upper, DILUENTE)
  THEN RematchCandidate(ms, DiluentCandidate(tx_upper))
  ELSE NoMatch

\* the diluent pass on tx_upper = tx.upper()
DiluentPass(ms, tx) == DiluentPassU(ms, Upper(tx))

\* the two alternatives of r"SARS[- ]?COV2|COVID[- ]?19": the letters before
\* and after the optional character
CovidAlternatives ==
  { [head |-> <<"S", "A", "R", "S">>, tail |-> <<"C", "O", "V", "2">>],
    [head |-> <<"C", "O", "V", "I", "D">>, tail |-> <<"1", "9">>] }

\* the class [- ]
IsHyphenOrSpace(c) == c \in {"-", " "}

\* [- ]? and then tail, at index j of u
TailMatchesAt(u, j, tail) ==
  \/ OccursAt(u, tail, j)
  \/ j <= Len(u) /\ IsHyphenOrSpace(u[j]) /\ OccursAt(u, tail, j + 1)

\* a variant of CovidMatchesAt without the optional character
CovidMatchesJoined(u, i, alt) == OccursAt(u, alt.head \o alt.tail, i)

\* the alternative alt matches u at index i
CovidMatchesAt(u, i, alt) ==
  OccursAt(u, alt.head, i) /\ TailMatchesAt(u, i + Len(alt.head), alt.tail)

CovidSearchU(u) ==
  \E i \in 1..Len(u) : \E alt \in CovidAlternatives : CovidMatchesAt(u, i, alt)

\* re.search(r"SARS[- ]?COV2|COVID[- ]?19", tx, flags=re.IGNORECASE)
CovidSearch(tx) == CovidSearchU(Upper(tx))

\* the disease-keyword pass
DiseasePass(tx) ==
  IF CovidSearch(tx) THEN [kind |-> "match", label |-> CovidLabel, index |-> 0]
  ELSE NoMatch

\* tx = rec.get("TX_INSUMO") or rec.get("tx_insumo") or ""
InsumoText(r) == Or(Or(Get(r, "TX_INSUMO"), Get(r, "tx_insumo")), <<>>)

Outcome(d, pass) == [kind |-> d.kind, label |-> d.label, pass |-> pass]

\* after the diluent pass (d2): its match, else the disease-keyword pass,
\* else None
AfterDiluent(tx, d2) ==
  IF d2.kind # "nomatch" THEN Outcome(d2, "diluent")
  ELSE IF CovidSearch(tx) THEN Outcome(DiseasePass(tx), "disease")
  ELSE Outcome(NoMatch, "none")

\* a variant of AfterDirect in which the disease keyword is looked for first
CovidFirst(tx, ms, d1) ==
  IF CovidSearch(tx) THEN Outcome(DiseasePass(tx), "disease")
  ELSE IF d1.kind # "nomatch" THEN Outcome(d1, "direct")
  ELSE AfterDiluent(tx, DiluentPass(ms, tx))

\* after the direct pass (d1): its match (or its TypeError), else the
\* later passes
AfterDirect(tx, ms, d1) ==
  IF d1.kind # "nomatch" THEN Outcome(d1, "direct")
  ELSE AfterDiluent(tx, DiluentPass(ms, tx))

\* the passes on the raw text tx: [kind, label, pass]; kind "raise" is the
\* TypeError of a rule without a pattern
InsumoOutcomeOf(tx, ms) ==
  IF ~Truthy(tx) THEN [kind |-> "empty", label |-> None, pass |-> "none"]
  ELSE AfterDirect(tx, ms, DirectPass(ms, tx))

InsumoOutcome(r, ms) == InsumoOutcomeOf(InsumoText(r), ms)

\* the end of normalize_record for the record r1 (tx_sigla_norm set) and the
\* outcome o of the passes
Finish(r1, o) ==
  IF o.kind = "raise" THEN [exc |-> "TypeError", val |-> r1, via |-> "raise"]
  ELSE IF o.kind = "overflow"
  THEN [exc |-> "OverflowError", val |-> r1, via |-> "raise"]
  ELSE [exc |-> "none", val |-> Put(r1, "tx_insumo_norm", o.label), via |-> o.pass]

InsumoPart(r1, ms) == Finish(r1, InsumoOutcome(r1, ms))

\* normalize_record(rec, mappings): [exc, val, via]; via is the pass whose
\* return statement ended the call; on an exception val is the record as
\* the call left it (tx_sigla_norm is already set)
\* of; txs.strip() raises AttributeError when the region value is a number
normalize_record(r, ms) ==
  IF SiglaText(r) = JsonInt
  THEN [exc |-> "AttributeError", val |-> r, via |-> "raise"]
  ELSE InsumoPart(_normalize_tx_sigla(r), ms)

\* a variant of the copy in backend/etl_normalize.py that ends after the
\* direct pass
DirectOnlyRecord(r, ms) == Finish(r, Outcome(DirectPass(ms, InsumoText(r)), "direct"))

\* normalize_record(rec, mappings) of backend/etl_normalize.py: the same
\* passes on the product text, without the region code
backend_normalize_record(r, ms) == InsumoPart(r, ms)

---------------------------------------------------------------------------
(* main(): load the mappings, normalise each record of the input, write *)

EmptyDict == <<>>

\* the request and the response while nothing has been asked
NoQuery == [route |-> "none"]

NoAnswer == [status |-> 0]

\* nothing has been asked yet
NoRequest == request = NoQuery /\ response = NoAnswer /\ consulted = <<>>

\* no request is being served
ApiIdle ==
  /\ db_pool = FALSE
  /\ environ = EmptyDict
  /\ sources = EmptyDict
  /\ NoRequest

InitWith(Resources, Records) ==
  /\ threads = <<>>
  /\ ApiIdle
  /\ resource \in Resources
  /\ input \in Records
  /\ pc = "start"
  /\ err = "none"
  /\ mappings = <<>>
  /\ rec = EmptyDict
  /\ via = "none"

\* mappings = load_mappings(Path(args.mappings)); an exception ends main()
LoadMappings ==
  /\ pc = "start"
  /\ \E r \in {load_mappings(resource)} :
       /\ mappings' = r.val
       /\ err' = r.exc
       /\ pc' = IF r.exc = "none" THEN "loaded" ELSE "failed"
  /\ UNCHANGED <<resource, input, rec, via, callVars, apiVars>>

\* normalize_record(dict(rec), mappings) on the record of the input; an
\* exception ends main()
NormalizeRecord ==
  /\ pc = "loaded"
  /\ \E n \in {normalize_record(input, mappings)} :
       /\ rec' = n.val
       /\ via' = n.via
       /\ err' = n.exc
       /\ pc' = IF n.exc = "none" THEN "normalized" ELSE "failed"
  /\ UNCHANGED <<resource, input, mappings, callVars, apiVars>>

\* json.dump(out, f): main() ends
WriteOutput ==
  /\ pc = "normalized"
  /\ pc' = "done"
  /\ UNCHANGED <<resource, input, err, mappings, rec, via, callVars, apiVars>>

\* main() of backend/etl_normalize.py: normalize_record(dict(rec), mappings)
\* on the record of the input; an exception ends main()
BackendNormalizeRecord ==
  /\ pc = "loaded"
  /\ \E n \in {backend_normalize_record(input, mappings)} :
       /\ rec' = n.val
       /\ via' = n.via
       /\ err' = n.exc
       /\ pc' = IF n.exc = "none" THEN "backend_normalized" ELSE "backend_failed"
  /\ UNCHANGED <<resource, input, mappings, callVars, apiVars>>

\* json.dump(out, f) of backend/etl_normalize.py: main() ends
BackendWriteOutput ==
  /\ pc = "backend_normalized"
  /\ pc' = "backend_done"
  /\ UNCHANGED <<resource, input, err, mappings, rec, via, callVars, apiVars>>

Next ==
  \/ LoadMappings
  \/ NormalizeRecord
  \/ WriteOutput

---------------------------------------------------------------------------
(* Inputs of the insumo pipeline *)

MaxRules == 2

MaxCores == 1

RuleFA ==
  [pattern |-> <<"F", "E", "B", "R", "E", " ", "A", "M", "A", "R", "E", "L", "A">>,
   vacina_normalizada |-> <<"F", "e", "b", "r", "e", " ", "A", "m", "a", "r", "e", "l", "a">>,
   priority |-> 50]

RuleBCG ==
  [pattern |-> <<"^", "B", "C", "G">>,
   vacina_normalizada |-> <<"B", "C", "G">>,
   priority |-> 10]

RuleSet ==
  [pattern |-> <<"[", "b", "c", "g">>,
   vacina_normalizada |-> <<"B", "C", "G", "-", "I", "D">>,
   priority |-> 10]

RuleTail ==
  [pattern |-> <<"A", "M", "A", "R", "E", "L", "A", "$">>,
   vacina_normalizada |-> <<"F", "A">>]

RuleVocab == {RuleFA, RuleBCG, RuleSet, RuleTail}

\* the sequences of at most n distinct elements of S
RECURSIVE DistinctSeqs(_, _)
DistinctSeqs(S, n) ==
  IF n = 0 THEN {<<>>}
  ELSE LET shorter == DistinctSeqs(S, n - 1)
           longer  == {qx \in shorter \X S :
                         /\ Len(qx[1]) = n - 1
                         /\ \A i \in 1..(n - 1) : qx[1][i] # qx[2]}
       IN  shorter \cup {Append(qx[1], qx[2]) : qx \in longer}

ArrayOf(items) == [kind |-> "array", items |-> items]

\* mappings files: a JSON array of at most MaxRules rules, in any order
InsumoResources == {ArrayOf(q) : q \in DistinctSeqs(RuleVocab, MaxRules)}

Prefixes ==
  { <<>>,
    <<"D", "I", "L", "U", "E", "N", "T", "E", " ", "P", "A", "R", "A", " ", "V", "A", "C", "I", "N", "A", " ", "C", "O", "N", "T", "R", "A", " ">>,
    <<"d", "i", "l", "u", "e", "n", "t", "e", " ">>,
    <<"D", "i", "l", "u", "e", "n", "t", "e", " ", "P", "/", "V", "a", "c", "i", "n", "a", " ">> }

Cores ==
  { <<"F", "E", "B", "R", "E", " ", "A", "M", "A", "R", "E", "L", "A">>,
    <<"B", "c", "g">>,
    <<"[", "B", "-", "C", "G">>,
    <<"[", "B", "c", "g">>,
    <<"1", "2">> }

Suffixes ==
  { <<>>,
    <<" ", "c", "o", "v", "i", "d", "-", "1", "9">> }

\* the concatenations of at most n elements of S
RECURSIVE Concats(_, _)
Concats(S, n) ==
  IF n = 0 THEN {<<>>}
  ELSE LET shorter == Concats(S, n - 1)
       IN  shorter \cup {q \o x : q \in shorter, x \in S}

InsumoTexts ==
  {p \o c \o x : p \in Prefixes, c \in Concats(Cores, MaxCores), x \in Suffixes}

SiglaSESPR == <<"S", "E", "S", "-", "P", "R">>

InsumoRecords ==
  {[TX_SIGLA |-> SiglaSESPR, TX_INSUMO |-> t] : t \in InsumoTexts}
  \cup {[TX_SIGLA |-> SiglaSESPR, tx_insumo |-> t] : t \in Cores}
  \cup {[TX_SIGLA |-> SiglaSESPR, TX_INSUMO |-> <<>>, tx_insumo |-> t] : t \in Cores}
  \cup {[TX_SIGLA |-> SiglaSESPR, TX_INSUMO |-> None], [TX_SIGLA |-> SiglaSESPR]}

Init == InitWith(InsumoResources, InsumoRecords)

Spec == Init /\ [][Next]_vars

---------------------------------------------------------------------------
(* What the claims speak of *)

Normalized == pc \in {"normalized", "done"}

\* the raw product text of the input record
Tx == InsumoText(input)

\* the label normalize_record stored
Result == rec["tx_insumo_norm"]

\* the rules as the mappings file declares them
Declared == resource.items

RuleHits(i, t) == RuleMatches(Declared[i]["pattern"], t)

LabelOfRule(i) == Declared[i]["vacina_normalizada"]

\* rule i is tried before rule j: lower priority first, declaration order
\* among equal priorities
Before(i, j) ==
  \/ PriorityKey(Declared[i]) < PriorityKey(Declared[j])
  \/ PriorityKey(Declared[i]) = PriorityKey(Declared[j]) /\ i < j

SomeHit(t) == \E i \in 1..Len(Declared) : RuleHits(i, t)

IsFirstHit(i, t) ==
  /\ RuleHits(i, t)
  /\ \A j \in 1..Len(Declared) : (j # i /\ RuleHits(j, t)) => Before(i, j)

LabelOfFirstHit(t, label) ==
  \E i \in 1..Len(Declared) : IsFirstHit(i, t) /\ label = LabelOfRule(i)

\* the cleaned candidate of the diluent pass for the raw text t
Candidate(t) == CleanCandidate(DiluentCandidate(Upper(t)))

\* the diluent pass reaches its rule loop for the raw text t
DiluentEntered(t) ==
  Contains(Upper(t), DILUENTE) /\ DiluentCandidate(Upper(t)) # <<>>

ExampleDiluentText == <<"D", "I", "L", "U", "E", "N", "T", "E", " ", "P", "A", "R", "A", " ", "V", "A", "C", "I", "N", "A", " ", "C", "O", "N", "T", "R", "A", " ">> \o <<"F", "E", "B", "R", "E", " ", "A", "M", "A", "R", "E", "L", "A">>

LabelFebreAmarela == <<"F", "e", "b", "r", "e", " ", "A", "m", "a", "r", "e", "l", "a">>

---------------------------------------------------------------------------
(* C1: in the direct pass the first matching rule in ascending priority   *)
(* order gives the label: when two rules of priorities p1 < p2 both match *)
(* the raw text, the label returned is never that of the p2 rule.         *)
C1_DirectPassPriority ==
  (Normalized /\ Truthy(Tx) /\ SomeHit(Tx)) =>
     /\ via = "direct"
     /\ LabelOfFirstHit(Tx, Result)
     /\ \A i, j \in 1..Len(Declared) :
          (/\ RuleHits(i, Tx) /\ RuleHits(j, Tx)
           /\ PriorityKey(Declared[i]) < PriorityKey(Declared[j])
           /\ LabelOfRule(i) # LabelOfRule(j)) => Result # LabelOfRule(j)

\* two matching rules, the one of lower priority declared last, and it wins
C1_Witness ==
  /\ pc = "normalized"
  /\ \E i, j \in 1..Len(Declared) :
       /\ i < j
       /\ PriorityKey(Declared[j]) < PriorityKey(Declared[i])
       /\ RuleHits(i, Tx) /\ RuleHits(j, Tx)
       /\ Result = LabelOfRule(j)
       /\ Result # LabelOfRule(i)

(* C3: the passes form a first-success pipeline: null for null or empty   *)
(* text, else the direct pass's label, else the diluent pass's, else      *)
(* Covid-19 if the disease keyword is found, else null; a later pass      *)
(* never overrides an earlier one.                                        *)
C3_PipelineOrder ==
  Normalized =>
    IF ~Truthy(Tx) THEN IsNone(Result) /\ via = "none"
    ELSE IF SomeHit(Tx) THEN via = "direct" /\ LabelOfFirstHit(Tx, Result)
    ELSE IF DiluentEntered(Tx) /\ SomeHit(Candidate(Tx))
    THEN via = "diluent" /\ LabelOfFirstHit(Candidate(Tx), Result)
    ELSE IF CovidSearch(Tx) THEN via = "disease" /\ Result = CovidLabel
    ELSE IsNone(Result) /\ via = "none"

\* a rule matches the text directly and wins over the Covid-19 fallback
C3_Witness ==
  /\ pc = "normalized"
  /\ via = "direct"
  /\ CovidSearch(Tx)
  /\ Result # CovidLabel

(* C4, as stated: the diluent pass runs only when the uppercased text     *)
(* contains DILUENTE and no rule matched directly, it returns the label   *)
(* of the first rule in priority order matching the cleaned candidate,    *)
(* and "DILUENTE PARA VACINA CONTRA FEBRE AMARELA" with a rule for        *)
(* "FEBRE AMARELA" yields "Febre Amarela" via the diluent pass.           *)
C4_ExampleViaDiluentPass ==
  (/\ Normalized
   /\ Tx = ExampleDiluentText
   /\ \E i \in 1..Len(Declared) : Declared[i] = RuleFA) =>
     Result = LabelFebreAmarela /\ via = "diluent"

(* C4, amended: the diluent pass decides only when the uppercased text    *)
(* contains DILUENTE and no rule matched the raw text; when its candidate *)
(* is non-empty and, cleaned, matches some rule, the result is the label  *)
(* of the first rule in priority order that matches the cleaned           *)
(* candidate.  The example text with a rule for "FEBRE AMARELA" yields    *)
(* "Febre Amarela", by the direct pass.                                   *)
C4_DiluentPass ==
  Normalized =>
    /\ via = "diluent" => (Contains(Upper(Tx), DILUENTE) /\ ~SomeHit(Tx))
    /\ (/\ Truthy(Tx) /\ ~SomeHit(Tx)
        /\ DiluentEntered(Tx) /\ SomeHit(Candidate(Tx))) =>
          via = "diluent" /\ LabelOfFirstHit(Candidate(Tx), Result)
    /\ (/\ Tx = ExampleDiluentText
        /\ \E i \in 1..Len(Declared) : Declared[i] = RuleFA) =>
          Result = LabelFebreAmarela /\ via = "direct"

\* the diluent pass gives a label that no rule gives on the raw text
C4_Witness ==
  /\ pc = "normalized"
  /\ via = "diluent"
  /\ ~IsNone(Result)
  /\ ~SomeHit(Tx)
  /\ LabelOfFirstHit(Candidate(Tx), Result)

\* rule i holds a pattern that re.compile rejects
InvalidRule(i) == ~IsValidRegex(Declared[i]["pattern"])

\* the pattern of rule i is contained in t, letter case ignored
SubstringHit(i, t) == Contains(Upper(t), Upper(Declared[i]["pattern"]))

\* rule i matches t: by containment if its pattern is invalid
HitsOrContains(i, t) == IF InvalidRule(i) THEN SubstringHit(i, t) ELSE RuleHits(i, t)

\* rule i is the first rule in priority order that matches t
FirstHitOrContains(i, t) ==
  /\ HitsOrContains(i, t)
  /\ \A j \in 1..Len(Declared) : (j # i /\ HitsOrContains(j, t)) => Before(i, j)

NothingHits(t) == \A j \in 1..Len(Declared) : ~HitsOrContains(j, t)

(* C6: a rule whose pattern is not a valid regular expression never       *)
(* aborts normalization: in the direct pass and in the diluent re-match   *)
(* it is a case-insensitive containment test, and the other rules and the *)
(* later passes are still processed in order.                             *)
C6_InvalidPatternFallsBack ==
  (\E i \in 1..Len(Declared) : InvalidRule(i)) =>
    /\ pc # "failed" /\ err = "none"
    /\ (Normalized /\ Truthy(Tx)) =>
         /\ \A i \in 1..Len(Declared) :
              FirstHitOrContains(i, Tx) => via = "direct" /\ Result = LabelOfRule(i)
         /\ \A i \in 1..Len(Declared) :
              (/\ NothingHits(Tx) /\ DiluentEntered(Tx)
               /\ FirstHitOrContains(i, Candidate(Tx))) =>
                 via = "diluent" /\ Result = LabelOfRule(i)
         /\ (/\ NothingHits(Tx)
             /\ ~(DiluentEntered(Tx) /\ ~NothingHits(Candidate(Tx)))) =>
               Result = (IF CovidSearch(Tx) THEN CovidLabel ELSE None)

\* the diluent re-match: a valid rule tried first does not match the
\* candidate, the invalid rule after it is contained in it
C6_Witness ==
  /\ pc = "normalized"
  /\ via = "diluent"
  /\ \E i, j \in 1..Len(Declared) :
       /\ InvalidRule(i) /\ ~InvalidRule(j) /\ Before(j, i)
       /\ SubstringHit(i, Candidate(Tx))
       /\ ~SubstringHit(i, Tx)
       /\ Result = LabelOfRule(i)

\* the rule list with the letters of every pattern in upper case
WithUpperPatterns(ms) ==
  [i \in 1..Len(ms) |->
     [k \in DOMAIN ms[i] |-> IF k = "pattern" THEN Upper(ms[i][k]) ELSE ms[i][k]]]

\* the rule list with the letters of every pattern in lower case
WithLowerPatterns(ms) ==
  [i \in 1..Len(ms) |->
     [k \in DOMAIN ms[i] |-> IF k = "pattern" THEN Lower(ms[i][k]) ELSE ms[i][k]]]

LabelFor(tx, ms) == InsumoOutcomeOf(tx, ms).label

(* C10: matching ignores letter case in all three passes: changing the    *)
(* letter case of characters of the raw text, or of the literal letters   *)
(* of a rule's pattern, does not change the label returned.               *)
C10_CaseInsensitive ==
  (Normalized /\ Truthy(Tx)) =>
    /\ Result = LabelFor(Upper(Tx), mappings)
    /\ Result = LabelFor(Lower(Tx), mappings)
    /\ Result = LabelFor(Tx, WithUpperPatterns(mappings))
    /\ Result = LabelFor(Tx, WithLowerPatterns(mappings))

\* a text of mixed case gets a label from a pattern written in another case
C10_Witness ==
  /\ pc = "normalized"
  /\ ~IsNone(Result)
  /\ via \in {"direct", "diluent"}
  /\ Tx # Upper(Tx) /\ Tx # Lower(Tx)
  /\ \A i \in 1..Len(Declared) :
       ~Contains(Tx, RegexBody(Declared[i]["pattern"]))

---------------------------------------------------------------------------
(* Inputs of the disease-keyword pass: texts made of the fragments of the *)
(* six spellings, alone or after "DILUENTE "                              *)

MaxCovidParts == 3

CovidParts ==
  { <<"S", "A", "R", "S">>, <<"C", "O", "V", "2">>, <<"c", "o", "v", "i", "d">>, <<"1", "9">>, <<"-">>, <<" ">> }

CovidPrefixes == { <<>>, <<"D", "I", "L", "U", "E", "N", "T", "E", " ">> }

CovidTexts == {p \o c : p \in CovidPrefixes, c \in Concats(CovidParts, MaxCovidParts)}

RuleSars ==
  [pattern |-> <<"^", "S", "A", "R", "S">>,
   vacina_normalizada |-> <<"S", "a", "r", "s">>,
   priority |-> 10]

CovidResources == {ArrayOf(<<>>), ArrayOf(<<RuleSars>>)}

CovidRecords == {[TX_SIGLA |-> SiglaSESPR, TX_INSUMO |-> t] : t \in CovidTexts}

InitCovid == InitWith(CovidResources, CovidRecords)

SpecCovid == InitCovid /\ [][Next]_vars

\* the six spellings the disease-keyword pass is said to accept
SixVariants ==
  { <<"S", "A", "R", "S", "-", "C", "O", "V", "2">>, <<"S", "A", "R", "S", " ", "C", "O", "V", "2">>, <<"S", "A", "R", "S", "C", "O", "V", "2">>, <<"C", "O", "V", "I", "D", "-", "1", "9">>, <<"C", "O", "V", "I", "D", " ", "1", "9">>, <<"C", "O", "V", "I", "D", "1", "9">> }

ContainsVariant(t) == \E w \in SixVariants : Contains(Upper(t), w)

\* no rule matched t in the direct pass nor in the diluent pass
NoRuleMatched(t) == ~SomeHit(t) /\ ~(DiluentEntered(t) /\ SomeHit(Candidate(t)))

(* C5: a raw text that no rule matched in the direct or diluent pass gets *)
(* the label "Covid-19" if it contains, letter case ignored, one of       *)
(* SARS-COV2, SARS COV2, SARSCOV2, COVID-19, COVID 19, COVID19; a text    *)
(* with none of the six gets no label from the disease-keyword pass.      *)
C5_DiseaseKeyword ==
  (Normalized /\ Truthy(Tx)) =>
    /\ via = "disease" => ContainsVariant(Tx)
    /\ NoRuleMatched(Tx) =>
         IF ContainsVariant(Tx) THEN via = "disease" /\ Result = <<"C", "o", "v", "i", "d", "-", "1", "9">>
         ELSE via = "none" /\ IsNone(Result)

\* a rule was tried on the text and on the diluent candidate, matched
\* neither, and the keyword gave the label
C5_Witness ==
  /\ pc = "normalized"
  /\ via = "disease"
  /\ Declared # <<>>
  /\ DiluentEntered(Tx)
  /\ Tx # Upper(Tx)
  /\ Result = <<"C", "o", "v", "i", "d", "-", "1", "9">>

---------------------------------------------------------------------------
(* Inputs of _normalize_tx_sigla: raw values made of fragments, under     *)
(* either key                                                             *)

MaxSiglaParts == 3

SiglaParts ==
  { <<"S", "E", "S">>, <<"s", "e", "s">>, <<"-">>, <<" ">>, <<".", "/">>, <<"P", "R">>, <<"A">>, <<"1">>, <<"X", "Y", "Z">> }

SiglaTexts == Concats(SiglaParts, MaxSiglaParts)

TextBcg == <<"B", "c", "g">>

SiglaRecords ==
  {[TX_SIGLA |-> t, TX_INSUMO |-> TextBcg] : t \in SiglaTexts}
  \cup {[tx_sigla |-> t, TX_INSUMO |-> TextBcg] : t \in SiglaParts}
  \cup {[TX_SIGLA |-> <<>>, tx_sigla |-> t, TX_INSUMO |-> TextBcg] : t \in SiglaParts}
  \cup {[TX_SIGLA |-> None, TX_INSUMO |-> TextBcg], [TX_INSUMO |-> TextBcg]}

InitSigla == InitWith({ArrayOf(<<RuleBCG>>)}, SiglaRecords)

SpecSigla == InitSigla /\ [][Next]_vars

\* the raw sigla of the input record
RawSigla == SiglaText(input)

\* the code normalize_record stored
Sigla == rec["tx_sigla_norm"]

(* C7: sigla normalization returns null for every raw value that is null  *)
(* or empty after trimming, whitespace-only strings included; it never    *)
(* returns an empty string for such input.                                *)
C7_NullWhenBlank ==
  (Normalized /\ Strip(RawSigla) = <<>>) => IsNone(Sigla)

\* what is left of u after one leading SES and all the separators after it
Remainders(u) ==
  IF ~OccursAt(u, SES, 1) THEN {u}
  ELSE {Drop(u, k) : k \in {k \in 4..(Len(u) + 1) :
          /\ \A q \in 4..(k - 1) : u[q] \in {"-", " ", "\t", "\n", "\r", ".", "/"}
          /\ k <= Len(u) => u[k] \notin {"-", " ", "\t", "\n", "\r", ".", "/"}}}

EndsWithTwoLetters(rem) ==
  Len(rem) >= 2 /\ IsAZ(rem[Len(rem) - 1]) /\ IsAZ(rem[Len(rem)])

CodeOf(rem) ==
  IF EndsWithTwoLetters(rem) THEN SubSeq(rem, Len(rem) - 1, Len(rem))
  ELSE IF Len(rem) >= 2 THEN SubSeq(rem, 1, 2)
  ELSE rem

(* C8: for a non-empty raw value, after uppercasing, trimming and         *)
(* stripping one leading SES followed by zero or more of '-', whitespace, *)
(* '.', '/', the code is the last two characters if the remainder ends    *)
(* with two uppercase letters (SES-PR, SES PR, XYZPR give PR), otherwise  *)
(* the first two characters of the remainder, or the whole remainder when *)
(* it is shorter than two characters (A gives A).                         *)
C8_SiglaOfNonEmpty ==
  (Normalized /\ Truthy(RawSigla)) =>
    /\ \E rem \in Remainders(Strip(Upper(RawSigla))) : Sigla = CodeOf(rem)
    /\ \A rem \in Remainders(Strip(Upper(RawSigla))) : Sigla = CodeOf(rem)
    /\ RawSigla \in { <<"S", "E", "S", "-", "P", "R">>, <<"S", "E", "S", " ", "P", "R">>, <<"X", "Y", "Z", "P", "R">> } => Sigla = <<"P", "R">>
    /\ RawSigla = <<"A">> => Sigla = <<"A">>

\* a lowercase prefix and a separator are stripped and the remainder ends
\* with two letters
C8_Witness ==
  /\ pc = "normalized"
  /\ RawSigla = <<"s", "e", "s", "-", "X", "Y", "Z">>
  /\ Sigla = <<"Y", "Z">>

---------------------------------------------------------------------------
(* Inputs of load_mappings: every kind of resource, and the arrays of at  *)
(* most MaxDoc rules over the priorities 10, 50, 100 and none             *)

MaxDoc == 4

\* the "priority" entry of a rule: none, or one value
PriorityChoices == {<<>>, <<10>>, <<50>>, <<100>>}

Digits == <<"1", "2", "3", "4", "5", "6", "7", "8", "9">>

\* the rule declared at position i: its label tells the position
DocRule(i, c) ==
  IF c = <<>>
  THEN [pattern |-> <<"b", "c", "g">>, vacina_normalizada |-> <<"R", Digits[i]>>]
  ELSE [pattern |-> <<"b", "c", "g">>, vacina_normalizada |-> <<"R", Digits[i]>>,
        priority |-> c[1]]

DocOf(f, n) == SubSeq([i \in 1..n |-> DocRule(i, f[i])], 1, n)

Docs == UNION {{DocOf(f, n) : f \in [1..n -> PriorityChoices]} : n \in 0..MaxDoc}

RuleNoPattern == [vacina_normalizada |-> <<"X">>]

\* resources that are no array of rules; the members of a JSON object are
\* its keys, those of a JSON string its characters
OtherResources ==
  {[kind |-> k, items |-> <<>>] :
     k \in {"missing", "unparsable", "scalar", "object", "string"}}
  \cup {[kind |-> "object", items |-> <<[key |-> <<"r", "u", "l", "e", "s">>]>>],
        [kind |-> "string", items |-> <<[char |-> "x"]>>]}

LoadResources ==
  {ArrayOf(d) : d \in Docs}
  \cup {ArrayOf(<<RuleNoPattern>>), ArrayOf(<<RuleBCG, RuleNoPattern>>)}
  \cup OtherResources

LoadRecords ==
  {[TX_SIGLA |-> SiglaSESPR, TX_INSUMO |-> TextBcg],
   [TX_SIGLA |-> SiglaSESPR, TX_INSUMO |-> <<>>]}

InitLoad == InitWith(LoadResources, LoadRecords)

SpecLoad == InitLoad /\ [][Next]_vars

\* load_mappings has returned the rules of an array
LoadedArray == pc \in {"loaded", "normalized", "done"} /\ resource.kind = "array"

\* the priority a rule is ranked by
Rank(x) == IF "priority" \in DOMAIN x THEN x["priority"] ELSE 100

Ranks(rules) == SubSeq([i \in 1..Len(rules) |-> Rank(rules[i])], 1, Len(rules))

Occurrences(rules, x) == Cardinality({i \in 1..Len(rules) : rules[i] = x})

(* C2: load_mappings returns the rules sorted ascending by priority, a    *)
(* rule without a priority ranked as 100, rules of equal priority in      *)
(* their declaration order (priorities [50,10,100,10] load as             *)
(* [10,10,50,100], the two 10s in declaration order); the output is a     *)
(* permutation of the input.                                              *)
C2_SortedStablePermutation ==
  LoadedArray =>
    /\ Len(mappings) = Len(Declared)
    /\ \A i \in 1..Len(Declared) :
         Occurrences(mappings, Declared[i]) = Occurrences(Declared, Declared[i])
    /\ \A i, j \in 1..Len(mappings) :
         i < j => Rank(mappings[i]) <= Rank(mappings[j])
    /\ \A i, j \in 1..Len(Declared) :
         (i < j /\ Rank(Declared[i]) = Rank(Declared[j])
                /\ Declared[i] # Declared[j]) =>
           \E a, b \in 1..Len(mappings) :
             a < b /\ mappings[a] = Declared[i] /\ mappings[b] = Declared[j]
    /\ Ranks(Declared) = <<50, 10, 100, 10>> =>
         mappings = <<Declared[2], Declared[4], Declared[1], Declared[3]>>

\* the example, its third rule without a priority
C2_Witness ==
  /\ pc = "loaded"
  /\ resource.kind = "array"
  /\ Ranks(Declared) = <<50, 10, 100, 10>>
  /\ "priority" \notin DOMAIN Declared[3]
  /\ Ranks(mappings) = <<10, 10, 50, 100>>
  /\ mappings[1] = Declared[2] /\ mappings[2] = Declared[4]

(* C9: loading the rule store from a missing or malformed resource ends   *)
(* in an error, and never yields an empty or partial rule list that       *)
(* normalization then proceeds with.                                      *)
C9_BadResourceFails ==
  (resource.kind # "array" /\ pc # "start") => (pc = "failed" /\ err # "none")

---------------------------------------------------------------------------
(* Concurrent calls of normalize_record over the loaded rule list: each   *)
(* call works on its own record and goes through the statements of        *)
(* normalize_record one pass at a time                                    *)

\* a variant of Iterated for a rule list that is an iterator: walking it
\* leaves nothing
Consumed(ms) == SubSeq(ms, 1, 0)

\* `for m in mappings:` walks a list: the list is as it was afterwards
Iterated(ms) == ms

\* a call on the record r, about to run its first statement
NewCall(r) == [arg |-> r, rec |-> r, at |-> "sigla", via |-> "none"]

\* the call t returns with its record holding label
Returned(t, label, pass) ==
  [t EXCEPT !.rec = Put(t.rec, "tx_insumo_norm", label), !.at = "returned",
            !.via = pass]

\* the call t after a rule loop that gave d: it returns, raises or goes on
\* at the statement next
AfterLoop(t, d, pass, next) ==
  IF d.kind = "match" THEN Returned(t, d.label, pass)
  ELSE IF d.kind = "nomatch" THEN [t EXCEPT !.at = next]
  ELSE [t EXCEPT !.at = "raised"]

\* lines 44-58 for the call t: the empty text, else the direct pass
DirectOf(t, ms, tx) ==
  IF ~Truthy(tx) THEN Returned(t, None, "none")
  ELSE AfterLoop(t, DirectPass(ms, tx), "direct", "diluent")

\* _normalize_tx_sigla(rec), line 42
StepSigla(c) ==
  /\ pc = "loaded"
  /\ threads[c].at = "sigla"
  /\ threads' = [threads EXCEPT ![c].rec = _normalize_tx_sigla(threads[c].rec),
                                ![c].at = "direct"]
  /\ UNCHANGED <<etlVars, apiVars>>

\* lines 44-58
StepDirect(c) ==
  /\ pc = "loaded"
  /\ threads[c].at = "direct"
  /\ threads' = [threads EXCEPT
                   ![c] = DirectOf(threads[c], mappings, InsumoText(threads[c].rec))]
  /\ mappings' = Iterated(mappings)
  /\ UNCHANGED <<resource, input, pc, err, rec, via, apiVars>>

\* lines 60-87
StepDiluent(c) ==
  /\ pc = "loaded"
  /\ threads[c].at = "diluent"
  /\ threads' = [threads EXCEPT
                   ![c] = AfterLoop(threads[c],
                                    DiluentPass(mappings, InsumoText(threads[c].rec)),
                                    "diluent", "disease")]
  /\ mappings' = Iterated(mappings)
  /\ UNCHANGED <<resource, input, pc, err, rec, via, apiVars>>

\* lines 89-95
StepDisease(c) ==
  /\ pc = "loaded"
  /\ threads[c].at = "disease"
  /\ threads' = [threads EXCEPT
                   ![c] = IF CovidSearch(InsumoText(threads[c].rec))
                          THEN Returned(threads[c], CovidLabel, "disease")
                          ELSE Returned(threads[c], None, "none")]
  /\ UNCHANGED <<etlVars, apiVars>>

NextCalls ==
  \/ LoadMappings
  \/ \E c \in DOMAIN threads : StepSigla(c)
  \/ \E c \in DOMAIN threads : StepDirect(c)
  \/ \E c \in DOMAIN threads : StepDiluent(c)
  \/ \E c \in DOMAIN threads : StepDisease(c)

MaxThreads == 2

CallTexts == { <<"B", "c", "g">>, <<"d", "i", "l", "u", "e", "n", "t", "e", " ", "B", "c", "g">>, <<"c", "o", "v", "i", "d", "-", "1", "9">> }

CallRecords == {[TX_SIGLA |-> SiglaSESPR, TX_INSUMO |-> t] : t \in CallTexts}

CallResources == {ArrayOf(<<RuleBCG>>), ArrayOf(<<RuleFA, RuleBCG>>)}

InitCalls ==
  /\ resource \in CallResources
  /\ input = EmptyDict
  /\ pc = "start"
  /\ err = "none"
  /\ mappings = <<>>
  /\ rec = EmptyDict
  /\ via = "none"
  /\ threads \in [1..MaxThreads -> {NewCall(r) : r \in CallRecords}]
  /\ ApiIdle

SpecCalls == InitCalls /\ [][NextCalls]_vars

\* what the call c would return if it ran alone on the loaded rule list
Alone(c) == normalize_record(threads[c].arg, load_mappings(resource).val)

(* C11: normalization has no hidden state: the result of a call depends   *)
(* only on its raw text and the rule list; repeating a call gives the     *)
(* same result; in every interleaving of concurrent calls each call       *)
(* returns what it would return alone, and the rule list keeps its        *)
(* content and order.                                                     *)
C11_NoHiddenState ==
  pc = "loaded" =>
    /\ mappings = load_mappings(resource).val
    /\ \A c \in DOMAIN threads :
         threads[c].at = "returned" =>
           /\ threads[c].rec = Alone(c).val
           /\ threads[c].via = Alone(c).via
           /\ threads[c].rec["tx_insumo_norm"]
                = LabelFor(InsumoText(threads[c].arg), load_mappings(resource).val)
    /\ \A c, d \in DOMAIN threads :
         (/\ threads[c].at = "returned" /\ threads[d].at = "returned"
          /\ threads[c].arg = threads[d].arg) => threads[c].rec = threads[d].rec

\* two calls on the same text have both returned, by the diluent pass, the
\* second having started its rule loops after the first had run its own
C11_Witness ==
  /\ pc = "loaded"
  /\ \A c \in DOMAIN threads : threads[c].at = "returned" /\ threads[c].via = "diluent"
  /\ threads[1].arg = threads[2].arg
  /\ threads[1].rec = threads[2].rec

---------------------------------------------------------------------------
(* Rule lists whose rules all have a pattern and a label, some with a     *)
(* repetition count, and records whose two raw fields are a string or     *)
(* null                                                                   *)

RuleRepeat ==
  [pattern |-> <<"a", "{", "9", "9", "9", "9", "9", "9", "9", "9", "9", "9", "9", "}">>, vacina_normalizada |-> <<"A">>]

RuleRepeatMax ==
  [pattern |-> <<"a", "{", "4", "2", "9", "4", "9", "6", "7", "2", "9", "5", "}">>, vacina_normalizada |-> <<"A">>, priority |-> 50]

RepeatVocab == {RuleBCG, RuleFA, RuleRepeat, RuleRepeatMax}

RepeatResources == {ArrayOf(q) : q \in DistinctSeqs(RepeatVocab, MaxRules)}

RepeatRecords ==
  {[TX_SIGLA |-> g, TX_INSUMO |-> t] :
     g \in {SiglaSESPR, << " " >>, None},
     t \in {<<"B", "c", "g">>, <<"d", "i", "l", "u", "e", "n", "t", "e", " ", "B", "c", "g">>, <<"a", "a", "a">>, <<"c", "o", "v", "i", "d", "-", "1", "9">>, <<>>, None}}

InitRepeat == InitWith(RepeatResources, RepeatRecords)

SpecRepeat == InitRepeat /\ [][Next]_vars

\* every loaded rule has a pattern and a label, both strings
RulesWellFormed ==
  \A i \in 1..Len(mappings) :
    /\ {"pattern", "vacina_normalizada"} \subseteq DOMAIN mappings[i]
    /\ ~IsNone(mappings[i]["pattern"])
    /\ ~IsNone(mappings[i]["vacina_normalizada"])

(* C12: for every string or null in the region and product fields and    *)
(* every loaded rule list whose rules each have a pattern and a label,   *)
(* normalize_record ends without an error and with both derived fields   *)
(* set to a string or null.                                              *)
C12_NeverEndsInError ==
  (pc # "start" /\ err # "none") => ~RulesWellFormed

---------------------------------------------------------------------------
(* Rows as the data sources deliver them: the two raw fields among other  *)
(* fields, with or without derived fields of an earlier normalization     *)

Derived == {"tx_sigla_norm", "tx_insumo_norm"}

RowOthers ==
  { EmptyDict,
    [ANO |-> <<"2", "0", "2", "4">>, MES |-> <<"0", "3">>, QTDE |-> 7],
    [ANO |-> <<"2", "0", "2", "3">>, QTDE |-> 0, extra |-> [lote |-> <<"L", "1">>]],
    [tx_sigla_norm |-> <<"X", "X">>, tx_insumo_norm |-> <<"O", "l", "d">>, QTDE |-> 5] }

RowRaws ==
  {[TX_SIGLA |-> g, TX_INSUMO |-> t] :
     g \in {SiglaSESPR, None}, t \in {<<"B", "c", "g">>, <<"d", "i", "l", "u", "e", "n", "t", "e", " ", "B", "c", "g">>, <<"a", "a", "a">>, <<>>}}
  \cup {[tx_sigla |-> SiglaSESPR, tx_insumo |-> t] : t \in {<<"B", "c", "g">>, <<"c", "o", "v", "i", "d", "-", "1", "9">>}}

RowRecords == {raw @@ o : raw \in RowRaws, o \in RowOthers}

RowResources ==
  {ArrayOf(<<RuleBCG>>), ArrayOf(<<RuleFA, RuleBCG>>), ArrayOf(<<RuleRepeat>>)}

InitRows == InitWith(RowResources, RowRecords)

SpecRows == InitRows /\ [][Next]_vars

\* normalize_record ran on the input record, to a return or to an exception
Called == Normalized \/ (pc = "failed" /\ via = "raise")

(* C13: normalize_record augments and never replaces: on every path it   *)
(* sets the two derived fields tx_sigla_norm and tx_insumo_norm and      *)
(* nothing else; every other field of the row keeps its value, and no    *)
(* field is added or removed.                                            *)
C13_AugmentsOnly ==
  /\ Called =>
       /\ DOMAIN rec \subseteq DOMAIN input \cup Derived
       /\ DOMAIN input \subseteq DOMAIN rec
       /\ \A k \in DOMAIN input \ Derived : rec[k] = input[k]
  /\ Normalized =>
       /\ Derived \subseteq DOMAIN rec
       /\ rec["tx_sigla_norm"] = SiglaNorm(input)
       /\ rec["tx_insumo_norm"] = LabelFor(InsumoText(input), mappings)

\* a row with ANO, QTDE and a nested extra field has been labelled;
\* its other fields are as they were
C13_Witness ==
  /\ pc = "normalized"
  /\ {"ANO", "QTDE", "extra", "TX_SIGLA", "TX_INSUMO"} \subseteq DOMAIN input
  /\ rec["tx_insumo_norm"] = <<"B", "C", "G">>
  /\ rec["tx_sigla_norm"] = <<"P", "R">>
  /\ rec["extra"] = [lote |-> <<"L", "1">>]
  /\ rec["QTDE"] = 0

---------------------------------------------------------------------------
(* The query layer: app.py and routers/previsao_router.py.  A column      *)
(* value is a text or None; a JSON number is written as its decimal text, *)
(* which str() and int() read as they read the number.  Fractional        *)
(* numbers are not among the values of the model.                         *)

\* str(v)
StrOf(v) == IF IsNone(v) THEN <<"N", "o", "n", "e">> ELSE v

\* str.zfill(2)
ZFill2(s) == IF Len(s) >= 2 THEN s ELSE IF Len(s) = 1 THEN <<"0">> \o s ELSE <<"0", "0">>

IsDecimal(d) == d # <<>> /\ \A i \in 1..Len(d) : IsDigit(d[i])

\* the number the decimal digits d write
RECURSIVE DecimalValue(_)
DecimalValue(d) ==
  IF d = <<>> THEN 0
  ELSE 10 * DecimalValue(SubSeq(d, 1, Len(d) - 1)) + DigitValue(d[Len(d)])

\* int(t) for a text t without surrounding whitespace: [ok, val]; ok is FALSE
\* where Python raises ValueError
IntOfStripped(t) ==
  IF IsDecimal(t) THEN [ok |-> TRUE, val |-> DecimalValue(t)]
  ELSE IF t # <<>> /\ Head(t) = "-" /\ IsDecimal(Tail(t))
  THEN [ok |-> TRUE, val |-> 0 - DecimalValue(Tail(t))]
  ELSE IF t # <<>> /\ Head(t) = "+" /\ IsDecimal(Tail(t))
  THEN [ok |-> TRUE, val |-> DecimalValue(Tail(t))]
  ELSE [ok |-> FALSE, val |-> 0]

\* int(v or 0)
IntOrZero(v) == IF Truthy(v) THEN IntOfStripped(Strip(v)) ELSE [ok |-> TRUE, val |-> 0]

\* the rule list of the default normalizer
DefaultMappings == SortedByPriority(<<RuleFA, RuleBCG>>)

\* normalizer.normalize_sigla(raw)
normalize_sigla(raw) ==
  IF IsNone(raw) \/ Strip(raw) = <<>> THEN None
  ELSE SiglaOfText(StripSesPrefix(Upper(Strip(raw))))

\* normalizer.normalize_insumo(raw)
normalize_insumo(raw) ==
  IF ~Truthy(raw) THEN None ELSE InsumoOutcomeOf(raw, DefaultMappings).label

\* r.setdefault(k, v)
SetDefault(r, k, v) == IF k \in DOMAIN r THEN r ELSE Put(r, k, v)

\* the two setdefault calls every aggregation handler makes on a row
WithNorms(r) ==
  SetDefault(SetDefault(r, "tx_insumo_norm", normalize_insumo(Get(r, "TX_INSUMO"))),
             "tx_sigla_norm", normalize_sigla(Get(r, "TX_SIGLA")))

\* for r in rows: ...setdefault...
Normed(rows) == SubSeq([i \in 1..Len(rows) |-> WithNorms(rows[i])], 1, Len(rows))

\* the filter <<"\"", "C", "O", "L", "\"", " ", "=", " ", "v">> of the query sent to a remote source
ColumnIs(r, col, v) == ~Truthy(v) \/ Get(r, col) = v

\* the filter <<"\"", "C", "O", "L", "\"", " ", "I", "L", "I", "K", "E", " ", "%", "v", "%">> of the query sent to a remote source
ColumnLike(r, col, v) ==
  ~Truthy(v) \/ (~IsNone(Get(r, col)) /\ Contains(Upper(Get(r, col)), Upper(v)))

\* the rows of the table a remote source answers with for the filters f
Selected(table, f) ==
  SelectSeq(table, LAMBDA r : /\ ColumnIs(r, "ANO", f.ano)
                              /\ ColumnIs(r, "MES", f.mes)
                              /\ ColumnLike(r, "TX_SIGLA", f.uf)
                              /\ ColumnLike(r, "TX_INSUMO", f.fabricante))

Fetched(rows, read) == [exc |-> "none", rows |-> rows, read |-> read]

\* _load_local_data(): the file main() of etl_normalize wrote for the table,
\* all of it; [] when there is no file
_load_local_data(src) ==
  IF ~src.file THEN <<>>
  ELSE SubSeq([i \in 1..Len(src.table) |->
                 normalize_record(src.table[i], DefaultMappings).val],
              1, Len(src.table))

\* _fetch_rows_from_db(table, filters)
_fetch_rows_from_db(pool, src, f) ==
  IF ~pool THEN Fetched(<<>>, <<>>) ELSE Fetched(Selected(src.table, f), <<"db">>)

\* os.getenv(SUPABASE_URL) and os.getenv(SUPABASE_SERVICE_ROLE_KEY) are set
RestConfigured(env) ==
  Truthy(Get(env, "SUPABASE_URL")) /\ Truthy(Get(env, "SUPABASE_SERVICE_ROLE_KEY"))

\* _fetch_rows_from_supabase of app.py: a failing request raises
_fetch_rows_from_supabase(env, src, f) ==
  IF ~RestConfigured(env) THEN Fetched(<<>>, <<>>)
  ELSE IF src.rest = "raises"
  THEN [exc |-> "ConnectError", rows |-> <<>>, read |-> <<"rest">>]
  ELSE IF src.rest # "200" THEN Fetched(<<>>, <<"rest">>)
  ELSE Fetched(Selected(src.table, f), <<"rest">>)

\* _fetch_rows_from_supabase of the router: <<"e", "x", "c", "e", "p", "t", " ", "E", "x", "c", "e", "p", "t", "i", "o", "n", ":", " ", "r", "e", "t", "u", "r", "n", " ", "[", "]">>
router_fetch_rows_from_supabase(env, src, f) ==
  IF ~RestConfigured(env) THEN Fetched(<<>>, <<>>)
  ELSE IF src.rest # "200" THEN Fetched(<<>>, <<"rest">>)
  ELSE Fetched(Selected(src.table, f), <<"rest">>)

\* a variant of OrLocal that reads the local file whatever Supabase gave
AlwaysLocal(s, src) ==
  IF s.exc # "none" THEN s
  ELSE Fetched(_load_local_data(src), s.read \o <<"local">>)

\* <<"i", "f", " ", "r", "o", "w", "s", ":", " ", "r", "e", "t", "u", "r", "n", " ", "r", "o", "w", "s">> and <<"r", "e", "t", "u", "r", "n", " ", "_", "l", "o", "a", "d", "_", "l", "o", "c", "a", "l", "_", "d", "a", "t", "a", "(", ")">>
OrLocal(s, src) ==
  IF s.exc # "none" \/ s.rows # <<>> THEN s
  ELSE Fetched(_load_local_data(src), s.read \o <<"local">>)

\* _fetch_rows of app.py
_fetch_rows(pool, env, src, f) ==
  IF pool THEN _fetch_rows_from_db(pool, src, f)
  ELSE OrLocal(_fetch_rows_from_supabase(env, src, f), src)

\* _fetch_rows of the router
router_fetch_rows(env, src, f) ==
  OrLocal(router_fetch_rows_from_supabase(env, src, f), src)

\* the checks of the row_matches functions
MatchAno(r, ano) == ~Truthy(ano) \/ StrOf(Get(r, "ANO")) = StrOf(ano)

MatchMes(r, mes) ==
  ~Truthy(mes) \/ ZFill2(StrOf(Get(r, "MES"))) = ZFill2(StrOf(mes))

\* a variant of MatchLabel that lets a row without label through
MatchLabelOrNone(r, k, want) ==
  ~Truthy(want) \/ Get(r, k) = want \/ IsNone(Get(r, k))

\* <<"i", "f", " ", "u", "f", " ", "a", "n", "d", " ", "(", "r", ".", "g", "e", "t", "(", "\"", "t", "x", "_", "s", "i", "g", "l", "a", "_", "n", "o", "r", "m", "\"", ")", " ", "!", "=", " ", "u", "f", ")">>, and so for fabricante
MatchLabel(r, k, want) == ~Truthy(want) \/ Get(r, k) = want

\* sum(int(r.get("QTDE") or 0) for r in rows): [ok, val]
RECURSIVE Total(_)
Total(rows) ==
  IF rows = <<>> THEN [ok |-> TRUE, val |-> 0]
  ELSE [ok  |-> Total(Tail(rows)).ok /\ IntOrZero(Get(Head(rows), "QTDE")).ok,
        val |-> Total(Tail(rows)).val + IntOrZero(Get(Head(rows), "QTDE")).val]

\* an uncaught exception: the framework answers 500
ServerError(exc) == [status |-> 500, exc |-> exc, body |-> None]

Ok(body) == [status |-> 200, exc |-> "none", body |-> body]

\* the end of overview and of api_overview on the matched rows
TotalDoses(t) ==
  IF t.ok THEN Ok([total_doses |-> t.val, periodo |-> None])
  ELSE ServerError("ValueError")

\* overview of app.py, and api_overview, on what _fetch_rows gave
overview(q, got) ==
  IF got.exc # "none" THEN ServerError(got.exc)
  ELSE TotalDoses(Total(SelectSeq(Normed(got.rows),
         LAMBDA r : /\ MatchAno(r, q.ano) /\ MatchMes(r, q.mes)
                    /\ MatchLabel(r, "tx_sigla_norm", q.uf)
                    /\ MatchLabel(r, "tx_insumo_norm", q.fabricante))))

\* the filters a handler hands to _fetch_rows
Filters(ano, mes, uf, fabricante) ==
  [ano |-> ano, mes |-> mes, uf |-> uf, fabricante |-> fabricante]

\* a handler takes the request q, answers resp and has read the sources read
Serve(q, resp, read) ==
  /\ request = NoQuery
  /\ request' = q
  /\ response' = resp
  /\ consulted' = read
  /\ UNCHANGED <<etlVars, callVars, db_pool, environ, sources>>

\* GET /overview
Overview(Q) ==
  \E q \in Q :
    \E got \in {_fetch_rows(db_pool, environ, sources,
                            Filters(q.ano, q.mes, q.uf, q.fabricante))} :
      Serve([q EXCEPT !.route = "/overview"], overview(q, got), got.read)

\* GET /api/overview of the router: the fetch is not filtered on fabricante
ApiOverview(Q) ==
  \E q \in Q :
    \E got \in {router_fetch_rows(environ, sources,
                                  Filters(q.ano, q.mes, q.uf, None))} :
      Serve([q EXCEPT !.route = "/api/overview"], overview(q, got), got.read)

\* str(n) for n >= 0
RECURSIVE DecimalText(_)
DecimalText(n) ==
  IF n < 10 THEN <<<<"0", "1", "2", "3", "4", "5", "6", "7", "8", "9">>[n + 1]>>
  ELSE DecimalText(n \div 10) \o <<<<"0", "1", "2", "3", "4", "5", "6", "7", "8", "9">>[(n % 10) + 1]>>

\* the text t with zeros in front up to the width w
PadLeft(t, w) ==
  IF Len(t) >= w THEN t ELSE SubSeq([i \in 1..(w - Len(t)) |-> "0"], 1, w - Len(t)) \o t

\* f"{n:0wd}"
ZeroPad(n, w) ==
  IF n < 0 THEN <<"-">> \o PadLeft(DecimalText(0 - n), w - 1)
  ELSE PadLeft(DecimalText(n), w)

\* f"{ano_val:04d}-{mes_val:02d}"
YearMonthKey(a, m) == ZeroPad(a, 4) \o <<"-">> \o ZeroPad(m, 2)

\* buckets.setdefault(key, 0); buckets[key] += n, on the items of the dict
\* in insertion order
AddTo(items, key, n) ==
  IF \E i \in 1..Len(items) : items[i].key = key
  THEN SubSeq([i \in 1..Len(items) |->
                 IF items[i].key = key
                 THEN [key |-> key, val |-> items[i].val + n] ELSE items[i]],
              1, Len(items))
  ELSE Append(items, [key |-> key, val |-> n])

\* one turn of the loop of timeseries for the parsed ANO, MES and QTDE:
\* a ValueError of int() ends the loop
AddParsed(b, a, m, n) ==
  IF b.ok /\ a.ok /\ m.ok /\ n.ok
  THEN [ok |-> TRUE, items |-> AddTo(b.items, YearMonthKey(a.val, m.val), n.val)]
  ELSE [ok |-> FALSE, items |-> <<>>]

\* the loop <<"f", "o", "r", " ", "r", " ", "i", "n", " ", "m", "a", "t", "c", "h", "e", "d">> of timeseries
RECURSIVE MonthBuckets(_)
MonthBuckets(rows) ==
  IF rows = <<>> THEN [ok |-> TRUE, items |-> <<>>]
  ELSE AddParsed(MonthBuckets(SubSeq(rows, 1, Len(rows) - 1)),
                 IntOrZero(Get(rows[Len(rows)], "ANO")),
                 IntOrZero(Get(rows[Len(rows)], "MES")),
                 IntOrZero(Get(rows[Len(rows)], "QTDE")))

\* the order of two characters of a year-month key
CharCode(c) == CHOOSE i \in 1..11 : <<"-", "0", "1", "2", "3", "4", "5", "6", "7", "8", "9">>[i] = c

\* a < b for strings, as Python compares them
RECURSIVE TextLess(_, _)
TextLess(a, b) ==
  IF b = <<>> THEN FALSE
  ELSE IF a = <<>> THEN TRUE
  ELSE IF Head(a) = Head(b) THEN TextLess(Tail(a), Tail(b))
  ELSE CharCode(Head(a)) < CharCode(Head(b))

\* x put into the list sorted by key
InsertAscending(sorted, x) ==
  SelectSeq(sorted, LAMBDA y : TextLess(y.key, x.key)) \o <<x>>
    \o SelectSeq(sorted, LAMBDA y : ~TextLess(y.key, x.key))

\* sorted(buckets.items()): the keys of a dict are distinct
RECURSIVE SortedItems(_)
SortedItems(items) ==
  IF items = <<>> THEN <<>>
  ELSE InsertAscending(SortedItems(SubSeq(items, 1, Len(items) - 1)), items[Len(items)])

\* [{"data": k, "doses_distribuidas": v} for k, v in ...]
SeriesOf(items) ==
  SubSeq([i \in 1..Len(items) |->
            [data |-> items[i].key, doses_distribuidas |-> items[i].val]],
         1, Len(items))

\* the end of timeseries on the buckets b
Series(b) ==
  IF b.ok THEN Ok(SeriesOf(SortedItems(b.items))) ELSE ServerError("ValueError")

\* timeseries of app.py on what _fetch_rows gave: row_matches tests uf and
\* fabricante only
timeseries(q, got) ==
  IF got.exc # "none" THEN ServerError(got.exc)
  ELSE Series(MonthBuckets(SelectSeq(Normed(got.rows),
         LAMBDA r : /\ MatchLabel(r, "tx_sigla_norm", q.uf)
                    /\ MatchLabel(r, "tx_insumo_norm", q.fabricante))))

\* GET /timeseries
Timeseries(Q) ==
  \E q \in Q :
    \E got \in {_fetch_rows(db_pool, environ, sources,
                            Filters(q.ano, q.mes, q.uf, q.fabricante))} :
      Serve([q EXCEPT !.route = "/timeseries"], timeseries(q, got), got.read)

\* row_matches of forecast for one filter: the label of the row against the
\* normalized filter value, or, when the filter value has no normal form,
\* the filter value inside the raw column
LabelOrRaw(r, labelKey, rawKey, want, wantNorm) ==
  \/ ~Truthy(want)
  \/ /\ Truthy(wantNorm)
     /\ Get(r, labelKey) = wantNorm
  \/ /\ ~Truthy(wantNorm)
     /\ Truthy(Get(r, rawKey))
     /\ Contains(Lower(Get(r, rawKey)), Lower(want))

\* one turn of the loop of forecast for the parsed ANO and QTDE
AddYear(b, a, n) ==
  IF b.ok /\ a.ok /\ n.ok
  THEN [ok |-> TRUE, items |-> AddTo(b.items, a.val, n.val)]
  ELSE [ok |-> FALSE, items |-> <<>>]

\* the loop <<"f", "o", "r", " ", "r", " ", "i", "n", " ", "m", "a", "t", "c", "h", "e", "d">> of forecast: the totals by year
RECURSIVE YearBuckets(_)
YearBuckets(rows) ==
  IF rows = <<>> THEN [ok |-> TRUE, items |-> <<>>]
  ELSE AddYear(YearBuckets(SubSeq(rows, 1, Len(rows) - 1)),
               IntOrZero(Get(rows[Len(rows)], "ANO")),
               IntOrZero(Get(rows[Len(rows)], "QTDE")))

RECURSIVE SumVals(_)
SumVals(items) == IF items = <<>> THEN 0 ELSE Head(items).val + SumVals(Tail(items))

\* int(round(total / n)): round() takes the even neighbour of a half
RoundedMean(total, n) ==
  IF 2 * (total % n) < n THEN total \div n
  ELSE IF 2 * (total % n) > n THEN (total \div n) + 1
  ELSE IF (total \div n) % 2 = 0 THEN total \div n
  ELSE (total \div n) + 1

\* the end of forecast: the point for the years k > 0 (the interval fields
\* of the point are left out), [] without such a year; int(mes) may raise
ForecastPoint(q, years) ==
  IF years = <<>> THEN Ok(<<>>)
  ELSE IF Truthy(q.mes) /\ ~IntOfStripped(Strip(q.mes)).ok THEN ServerError("ValueError")
  ELSE Ok(<<[data |-> IF Truthy(q.mes)
                      THEN <<"2", "0", "2", "5", "-">> \o ZeroPad(IntOfStripped(Strip(q.mes)).val, 2)
                      ELSE <<"2", "0", "2", "5">>,
             doses_previstas |-> RoundedMean(SumVals(years), Len(years))]>>)

ForecastOf(q, b) ==
  IF ~b.ok THEN ServerError("ValueError")
  ELSE ForecastPoint(q, SelectSeq(b.items, LAMBDA it : it.key > 0))

\* a variant of ForecastRows that keeps the rows of the asked month only
ForecastRowsOfMonth(q, rows, uf_norm, fabricante_norm) ==
  SelectSeq(rows,
    LAMBDA r : /\ LabelOrRaw(r, "tx_sigla_norm", "TX_SIGLA", q.uf, uf_norm)
               /\ LabelOrRaw(r, "tx_insumo_norm", "TX_INSUMO", q.fabricante,
                             fabricante_norm)
               /\ MatchMes(r, q.mes))

\* matched = [r for r in rows if row_matches(r)]
ForecastRows(q, rows, uf_norm, fabricante_norm) ==
  SelectSeq(rows,
    LAMBDA r : /\ LabelOrRaw(r, "tx_sigla_norm", "TX_SIGLA", q.uf, uf_norm)
               /\ LabelOrRaw(r, "tx_insumo_norm", "TX_INSUMO", q.fabricante,
                             fabricante_norm))

AnyFilter(q) == Truthy(q.ano) \/ Truthy(q.mes) \/ Truthy(q.uf) \/ Truthy(q.fabricante)

\* forecast of app.py on what _fetch_rows gave
forecast(q, got) ==
  IF ~AnyFilter(q) THEN Ok(<<>>)
  ELSE IF got.exc # "none" THEN ServerError(got.exc)
  ELSE ForecastOf(q, YearBuckets(ForecastRows(q, Normed(got.rows),
         IF Truthy(q.uf) THEN normalize_sigla(q.uf) ELSE None,
         IF Truthy(q.fabricante) THEN normalize_insumo(q.fabricante) ELSE None)))

\* GET /forecast: nothing is fetched without a filter; ano is no fetch filter
Forecast(Q) ==
  \E q \in Q :
    \E got \in {IF AnyFilter(q)
                THEN _fetch_rows(db_pool, environ, sources,
                                 Filters(None, q.mes, q.uf, q.fabricante))
                ELSE Fetched(<<>>, <<>>)} :
      Serve([q EXCEPT !.route = "/forecast"], forecast(q, got), got.read)

\* ensure_loaded_backend_env(): the keys of the .env file that the
\* environment lacks are set; a key the environment has keeps its value
ensure_loaded_backend_env(env, file) ==
  [k \in DOMAIN env \cup DOMAIN file |-> IF k \in DOMAIN env THEN env[k] ELSE file[k]]

\* a JSONResponse answered before anything external is called
Refused(status, env) ==
  [status |-> status, exc |-> "none", body |-> None, read |-> <<>>, env |-> env]

\* the answer once the RPC has been called
AfterRpc(status, env) ==
  [status |-> status, exc |-> "none", body |-> None, read |-> <<"rpc">>, env |-> env]

\* the checks on SUPABASE_URL and SUPABASE_SERVICE_ROLE_KEY, then the RPC
\* whose outcome decides the status
WithSupabase(env, okStatus) ==
  IF ~RestConfigured(env) THEN Refused(500, env) ELSE AfterRpc(okStatus, env)

\* the status previsao gives for what the RPC returned
PrevisaoStatus(outcome) ==
  IF outcome = "failed" THEN 502 ELSE IF outcome = "empty" THEN 404 ELSE 200

\* a variant of previsao that calls the RPC without looking at the
\* environment
PrevisaoUnchecked(q, env, file, outcome) ==
  IF ~Truthy(q.insumo_nome) THEN Refused(400, env)
  ELSE AfterRpc(PrevisaoStatus(outcome), ensure_loaded_backend_env(env, file))

\* previsao, in the router and in backend/previsao_router.py alike
previsao(q, env, file, outcome) ==
  IF ~Truthy(q.insumo_nome) THEN Refused(400, env)
  ELSE WithSupabase(ensure_loaded_backend_env(env, file), PrevisaoStatus(outcome))

\* <<"a", "n", "o", " ", "i", "s", " ", "N", "o", "n", "e", " ", "o", "r", " ", "i", "n", "t", "(", "a", "n", "o", ")", " ", "!", "=", " ", "2", "0", "2", "4">>
NotBaseYear(ano) == IsNone(ano) \/ IntOfStripped(Strip(ano)).val # 2024

\* the status previsao_comparacao gives for what the RPC returned
ComparacaoStatus(outcome) == IF outcome = "failed" THEN 502 ELSE 200

\* a variant of previsao_comparacao that takes any year
ComparacaoAnyYear(q, env, file, outcome) ==
  WithSupabase(ensure_loaded_backend_env(env, file), ComparacaoStatus(outcome))

\* previsao_comparacao of the router: insumo_nome may be missing
previsao_comparacao(q, env, file, outcome) ==
  IF NotBaseYear(q.ano) THEN Refused(400, env)
  ELSE WithSupabase(ensure_loaded_backend_env(env, file), ComparacaoStatus(outcome))

\* previsao_comparacao of backend/previsao_router.py
legacy_previsao_comparacao(q, env, file, outcome) ==
  IF ~Truthy(q.insumo_nome) THEN Refused(400, env)
  ELSE previsao_comparacao(q, env, file, outcome)

\* a handler of the previsao routers takes the request q and ends as a says
Answer(q, a) ==
  /\ request = NoQuery
  /\ request' = q
  /\ response' = [status |-> a.status, exc |-> a.exc, body |-> a.body]
  /\ consulted' = a.read
  /\ environ' = a.env
  /\ UNCHANGED <<etlVars, callVars, db_pool, sources>>

\* GET /api/previsao
Previsao(Q) ==
  \E q \in Q :
    Answer([q EXCEPT !.route = "/api/previsao"],
           previsao(q, environ, sources.envfile, sources.rpc))

\* GET /previsao of backend/previsao_router.py
LegacyPrevisao(Q) ==
  \E q \in Q :
    Answer([q EXCEPT !.route = "legacy/previsao"],
           previsao(q, environ, sources.envfile, sources.rpc))

\* GET /api/previsao/comparacao
PrevisaoComparacao(Q) ==
  \E q \in Q :
    Answer([q EXCEPT !.route = "/api/previsao/comparacao"],
           previsao_comparacao(q, environ, sources.envfile, sources.rpc))

\* GET /previsao/comparacao of backend/previsao_router.py
LegacyPrevisaoComparacao(Q) ==
  \E q \in Q :
    Answer([q EXCEPT !.route = "legacy/previsao/comparacao"],
           legacy_previsao_comparacao(q, environ, sources.envfile, sources.rpc))

---------------------------------------------------------------------------
(* The payloads of the Supabase RPCs: a JSON value is null, a number or a *)
(* string; an object is the list of its members in their order           *)

JNull == [t |-> "null", v |-> <<>>]

JNum(d) == [t |-> "num", v |-> d]

JStr(s) == [t |-> "str", v |-> s]

Member(k, v) == [k |-> k, v |-> v]

NoNumber == [ok |-> FALSE, val |-> 0]

\* re.sub(r"[^0-9.\-]", "", s)
NumericChars(s) == SelectSeq(s, LAMBDA c : IsDigit(c) \/ c \in {".", "-"})

\* float(s) of a text that holds no ".", exponent or name of a special value
FloatOfText(s) == IntOfStripped(Strip(s))

\* _coerce_number_for_extract: [ok, val], ok FALSE where it returns None
_coerce_number_for_extract(v) ==
  IF v.t = "null" THEN NoNumber
  ELSE IF v.t = "num" THEN IntOfStripped(v.v)
  ELSE IF FloatOfText(v.v).ok THEN FloatOfText(v.v)
  ELSE FloatOfText(NumericChars(Strip(v.v)))

\* <<"k", " ", "i", "n", " ", "i", "t", "e", "m", " ", "a", "n", "d", " ", "i", "t", "e", "m", ".", "g", "e", "t", "(", "k", ")", " ", "i", "s", " ", "n", "o", "t", " ", "N", "o", "n", "e">>
HasValue(item, k) == \E i \in 1..Len(item) : item[i].k = k /\ item[i].v # JNull

\* item.get(k)
ValueAt(item, k) == item[CHOOSE i \in 1..Len(item) : item[i].k = k].v

\* _pick(keys) of normalize_row
RECURSIVE _pick(_, _)
_pick(item, keys) ==
  IF keys = <<>> THEN JNull
  ELSE IF HasValue(item, Head(keys)) THEN ValueAt(item, Head(keys))
  ELSE _pick(item, Tail(keys))

ano_keys == <<"ano", "year", "f0", "0", "ano_val">>

qty_keys == <<"quantidade", "quant", "qtde", "f1", "1", "quantidade_val">>

tipo_keys == <<"tipo_dado", "tipo", "f2", "2">>

\* the n-th of list(item.values()) taken for a field that _pick left None,
\* when ano or quantidade is None and the object has two members or more
Positional(item, picked, n, incomplete) ==
  IF incomplete /\ Len(item) >= 2 /\ picked = JNull /\ Len(item) >= n
  THEN item[n].v ELSE picked

\* int(ano), then int(float(ano))
AnoInt(v) ==
  IF v.t = "null" THEN NoNumber
  ELSE IF v.t = "num" THEN IntOfStripped(v.v)
  ELSE IntOfStripped(Strip(v.v))

\* the end of normalize_row: row is FALSE where it returns None
NormalizedRow(ano, quantidade, tipo) ==
  [row |-> AnoInt(ano).ok \/ _coerce_number_for_extract(quantidade).ok \/ tipo # JNull,
   ano |-> AnoInt(ano),
   quantidade |-> _coerce_number_for_extract(quantidade),
   tipo_dado |-> IF tipo = JNull THEN None ELSE tipo.v]

RowFromPicked(item, ano, quantidade, tipo) ==
  NormalizedRow(Positional(item, ano, 1, ano = JNull \/ quantidade = JNull),
                Positional(item, quantidade, 2, ano = JNull \/ quantidade = JNull),
                Positional(item, tipo, 3, ano = JNull \/ quantidade = JNull))

\* normalize_row of a JSON object
normalize_row(item) ==
  RowFromPicked(item, _pick(item, ano_keys), _pick(item, qty_keys), _pick(item, tipo_keys))

\* what the RPC gave: a list of rows, an object that wraps lists under
\* "data" and "result", or something else (an object without a list, a text)
RpcList(items) == [kind |-> "list", items |-> items, alt |-> <<>>]

RpcWrapped(data, result) == [kind |-> "dict", items |-> data, alt |-> result]

RpcOther == [kind |-> "other", items |-> <<>>, alt |-> <<>>]

\* data is None: every attempt at the RPC failed
RpcFailed == [kind |-> "failed", items |-> <<>>, alt |-> <<>>]

\* <<"d", "a", "t", "a", ".", "g", "e", "t", "(", "\"", "d", "a", "t", "a", "\"", ")", " ", "o", "r", " ", "d", "a", "t", "a", ".", "g", "e", "t", "(", "\"", "r", "e", "s", "u", "l", "t", "\"", ")", " ", "o", "r", " ", "d", "a", "t", "a", ".", "g", "e", "t", "(", "\"", "r", "o", "w", "s", "\"", ")">>
Unwrapped(data) == IF data.items # <<>> THEN data.items ELSE data.alt

\* the rows previsao looks at
RowsOf(data) == IF data.kind = "dict" THEN Unwrapped(data) ELSE data.items

\* the heuristic of previsao: one row only, of type previsao, whose
\* quantity normalize_row gives as None or 0
LoneEmptyForecast(rows) ==
  /\ Len(rows) = 1
  /\ normalize_row(rows[1]).row
  /\ normalize_row(rows[1]).tipo_dado = <<"p", "r", "e", "v", "i", "s", "a", "o">>
  /\ (~normalize_row(rows[1]).quantidade.ok \/ normalize_row(rows[1]).quantidade.val = 0)

\* the content of a JSONResponse: an error object, the bare list, or the
\* debug object around the payload
ErrorBody(raw) == [shape |-> "erro", rows |-> <<>>, rpc_raw |-> raw]

ListBody(rows) == [shape |-> "list", rows |-> rows, rpc_raw |-> RpcFailed]

DebugBody(rows, raw) == [shape |-> "debug", rows |-> rows, rpc_raw |-> raw]

\* the variant of the heuristic that looks at the raw member "quantidade"
\* alone
LoneNullForecast(rows) ==
  /\ Len(rows) = 1
  /\ _pick(rows[1], tipo_keys) = JStr(<<"p", "r", "e", "v", "i", "s", "a", "o">>)
  /\ _pick(rows[1], <<"quantidade">>) \in {JNull, JNum(<<"0">>)}

\* a variant of PrevisaoResponse without the heuristic
PrevisaoPlain(data, debug) ==
  IF data.kind \in {"list", "dict"} /\ RowsOf(data) # <<>>
  THEN [status |-> 200, body |-> IF debug THEN DebugBody(RowsOf(data), data) ELSE ListBody(RowsOf(data))]
  ELSE [status |-> 404, body |-> ErrorBody(IF debug THEN data ELSE RpcFailed)]

\* previsao once the RPC has answered
PrevisaoResponse(data, debug) ==
  IF data.kind = "failed" THEN [status |-> 502, body |-> ErrorBody(data)]
  ELSE IF data.kind \in {"list", "dict"} /\ RowsOf(data) # <<>> /\ ~LoneEmptyForecast(RowsOf(data))
  THEN [status |-> 200, body |-> IF debug THEN DebugBody(RowsOf(data), data) ELSE ListBody(RowsOf(data))]
  ELSE [status |-> 404, body |-> ErrorBody(IF debug THEN data ELSE RpcFailed)]

\* the outcome of the RPC as previsao sees it
OutcomeOfRpc(data) ==
  IF data.kind = "failed" THEN "failed"
  ELSE IF PrevisaoResponse(data, FALSE).status = 404 THEN "empty" ELSE "rows"

\* previsao with the payload of the RPC: the checks of previsao, then the
\* response built from what the RPC gave
PrevisaoData(Q, route) ==
  \E q \in Q :
    \E a \in {previsao(q, environ, sources.envfile, OutcomeOfRpc(sources.rpc))} :
      /\ request = NoQuery
      /\ request' = [q EXCEPT !.route = route]
      /\ response' = [status |-> a.status, exc |-> a.exc,
                      body |-> IF a.read = <<>> THEN ErrorBody(RpcFailed)
                               ELSE PrevisaoResponse(sources.rpc, q.debug).body]
      /\ consulted' = a.read
      /\ environ' = a.env
      /\ UNCHANGED <<etlVars, callVars, db_pool, sources>>

---------------------------------------------------------------------------
(* The transports of supabase_repo: the SDK and the HTTP endpoint, each   *)
(* with underscored and with plain parameter names, and the table query   *)

\* a JSON number or text alone as the payload
RpcScalar(v) == [kind |-> "scalar", items |-> <<<<Member("", v)>>>>, alt |-> <<>>]

sum_keys == <<"sum", "soma", "quantidade", "total", "value", "qtde", "quant">>

\* extract_number_from_rpc_result for an object that is the first of a
\* list: the first of the keys whose value holds a number, else the first
\* value of the object
RECURSIVE NumberOfFirst(_, _)
NumberOfFirst(first, keys) ==
  IF keys = <<>>
  THEN IF first = <<>> THEN NoNumber ELSE _coerce_number_for_extract(first[1].v)
  ELSE IF HasValue(first, Head(keys)) /\ _coerce_number_for_extract(ValueAt(first, Head(keys))).ok
  THEN _coerce_number_for_extract(ValueAt(first, Head(keys)))
  ELSE NumberOfFirst(first, Tail(keys))

\* extract_number_from_rpc_result
extract_number_from_rpc_result(data) ==
  IF data.kind = "scalar"
  THEN IF data.items[1][1].v.t = "num" THEN _coerce_number_for_extract(data.items[1][1].v) ELSE NoNumber
  ELSE IF data.kind = "list" /\ data.items # <<>> THEN NumberOfFirst(data.items[1], sum_keys)
  ELSE IF data.kind = "dict" /\ data.items # <<>> THEN NumberOfFirst(data.items[1], sum_keys)
  ELSE NoNumber

\* an attempt through the SDK raises or gives a response with its data
SdkRaises == [raised |-> TRUE, data |-> RpcFailed]

SdkGives(data) == [raised |-> FALSE, data |-> data]

\* an attempt through HTTP raises or gives a status and the parsed body
HttpRaises == [raised |-> TRUE, status |-> 0, parsed |-> RpcOther]

HttpGives(status, parsed) == [raised |-> FALSE, status |-> status, parsed |-> parsed]

\* http_rpc_call: an exception becomes the status 502
http_rpc_call(attempt) ==
  IF attempt.raised THEN [status |-> 502, parsed |-> RpcOther]
  ELSE [status |-> attempt.status, parsed |-> attempt.parsed]

\* <<"s", "t", "a", "t", "u", "s", " ", "i", "n", " ", "(", "2", "0", "0", ",", " ", "2", "0", "1", ")">>
Accepted(attempt) == http_rpc_call(attempt).status \in {200, 201}

\* one entry of the log of attempts
Via(rpc, transport) == [rpc |-> rpc, via |-> transport]

\* the response of the SDK, if the client exists and an attempt did not raise
SdkAnswered(client, net) == client /\ (~net.sdk_u.raised \/ ~net.sdk_p.raised)

SdkData(net) == IF ~net.sdk_u.raised THEN net.sdk_u.data ELSE net.sdk_p.data

SdkAttempts(rpc, client, net) ==
  IF ~client THEN <<>>
  ELSE IF ~net.sdk_u.raised THEN <<Via(rpc, "sdk_underscored")>>
  ELSE <<Via(rpc, "sdk_underscored"), Via(rpc, "sdk_plain")>>

\* the sum of float(row["QTDE"]) over the rows of the table that have one
RECURSIVE TableTotal(_)
TableTotal(rows) ==
  IF rows = <<>> THEN 0
  ELSE TableTotal(Tail(rows))
         + (IF HasValue(Head(rows), "QTDE") /\ FloatOfText(ValueAt(Head(rows), "QTDE").v).ok
            THEN FloatOfText(ValueAt(Head(rows), "QTDE").v).val ELSE 0)

\* what an RPC helper returns: the value, whether raw is the marker
\* {"error": "rpc_failed"}, and the attempts made in their order
Helper(value, failed, log) == [value |-> value, failed |-> failed, log |-> log]

\* the table query of rpc_obter_soma_por_ano_value
SomaFromTable(net, log) ==
  IF ~net.table.raised /\ net.table.status = 200
  THEN Helper([ok |-> TRUE, val |-> TableTotal(net.table.rows)], FALSE, log \o <<Via("soma", "table")>>)
  ELSE Helper(NoNumber, TRUE, log \o <<Via("soma", "table")>>)

\* the HTTP attempts of rpc_obter_soma_por_ano_value
SomaFromHttp(net, log) ==
  IF Accepted(net.http_p)
  THEN Helper(extract_number_from_rpc_result(net.http_p.parsed), FALSE,
              log \o <<Via("soma", "http_plain")>>)
  ELSE IF Accepted(net.http_u)
  THEN Helper(extract_number_from_rpc_result(net.http_u.parsed), FALSE,
              log \o <<Via("soma", "http_plain"), Via("soma", "http_underscored")>>)
  ELSE SomaFromTable(net, log \o <<Via("soma", "http_plain"), Via("soma", "http_underscored")>>)

\* a variant that goes to the table as soon as the plain HTTP attempt is
\* refused
SomaSkipsUnderscored(client, net) ==
  IF SdkAnswered(client, net) /\ extract_number_from_rpc_result(SdkData(net)).ok
  THEN Helper(extract_number_from_rpc_result(SdkData(net)), FALSE, SdkAttempts("soma", client, net))
  ELSE IF Accepted(net.http_p)
  THEN Helper(extract_number_from_rpc_result(net.http_p.parsed), FALSE,
              SdkAttempts("soma", client, net) \o <<Via("soma", "http_plain")>>)
  ELSE SomaFromTable(net, SdkAttempts("soma", client, net) \o <<Via("soma", "http_plain")>>)

\* rpc_obter_soma_por_ano_value
rpc_obter_soma_por_ano_value(client, net) ==
  IF SdkAnswered(client, net) /\ extract_number_from_rpc_result(SdkData(net)).ok
  THEN Helper(extract_number_from_rpc_result(SdkData(net)), FALSE, SdkAttempts("soma", client, net))
  ELSE SomaFromHttp(net, SdkAttempts("soma", client, net))

\* the quantity of the first row of the year, None when there is no such
\* row or the payload is not a list
RECURSIVE QuantityOfYear(_, _)
QuantityOfYear(rows, year) ==
  IF rows = <<>> THEN NoNumber
  ELSE IF normalize_row(Head(rows)).row /\ normalize_row(Head(rows)).ano.ok
          /\ normalize_row(Head(rows)).ano.val = year
  THEN normalize_row(Head(rows)).quantidade
  ELSE QuantityOfYear(Tail(rows), year)

ProjectionIn(data, year) ==
  IF data.kind = "list" THEN QuantityOfYear(data.items, year) ELSE NoNumber

\* <<"s", "t", "a", "t", "u", "s", " ", "i", "n", " ", "(", "2", "0", "0", ",", " ", "2", "0", "1", ")", " ", "a", "n", "d", " ", "i", "s", "i", "n", "s", "t", "a", "n", "c", "e", "(", "p", "a", "r", "s", "e", "d", ",", " ", "l", "i", "s", "t", ")">>
AcceptedList(attempt) == Accepted(attempt) /\ http_rpc_call(attempt).parsed.kind = "list"

\* the HTTP attempts of rpc_obter_projecao_ano
ProjecaoFromHttp(net, year, log) ==
  IF AcceptedList(net.http_p)
  THEN Helper(ProjectionIn(net.http_p.parsed, year), FALSE, log \o <<Via("projecao", "http_plain")>>)
  ELSE IF AcceptedList(net.http_u)
  THEN Helper(ProjectionIn(net.http_u.parsed, year), FALSE,
              log \o <<Via("projecao", "http_plain"), Via("projecao", "http_underscored")>>)
  ELSE Helper(NoNumber, ~Accepted(net.http_p) /\ ~Accepted(net.http_u),
              log \o <<Via("projecao", "http_plain"), Via("projecao", "http_underscored")>>)

\* rpc_obter_projecao_ano
rpc_obter_projecao_ano(client, net, year) ==
  IF SdkAnswered(client, net) /\ ProjectionIn(SdkData(net), year).ok
  THEN Helper(ProjectionIn(SdkData(net), year), FALSE, SdkAttempts("projecao", client, net))
  ELSE ProjecaoFromHttp(net, year, SdkAttempts("projecao", client, net))

\* a call of rpc_obter_soma_por_ano_value with the client and the network
\* as they are
CallSoma ==
  \E r \in {rpc_obter_soma_por_ano_value(sources.client, sources.net)} :
    /\ request = NoQuery
    /\ request' = [route |-> "rpc_obter_soma_por_ano_value"]
    /\ response' = [status |-> IF r.failed THEN 502 ELSE 200, value |-> r.value, failed |-> r.failed]
    /\ consulted' = r.log
    /\ UNCHANGED <<etlVars, callVars, db_pool, environ, sources>>

---------------------------------------------------------------------------
(* previsao_comparacao once the parameters and the environment are       *)
(* accepted: the 2024 sum, then the 2025 projection                      *)

\* <<"v", " ", "i", "f", " ", "v", " ", "i", "s", " ", "n", "o", "t", " ", "N", "o", "n", "e", " ", "a", "n", "d", " ", "f", "l", "o", "a", "t", "(", "v", ")", " ", "!", "=", " ", "0", ".", "0", " ", "e", "l", "s", "e", " ", "N", "o", "n", "e">>
Shown(v) == IF v.ok /\ v.val # 0 THEN v ELSE NoNumber

\* a variant in which every number is shown as it is
ShownAsIs(v) == v

DataPoint(ano, quantidade, tipo) == [ano |-> ano, quantidade |-> quantidade, tipo |-> tipo]

\* resp_payload["dados_comparacao"]
dados_comparacao(soma_value, proj_value) ==
  <<DataPoint(2024, Shown(soma_value), "historico"), DataPoint(2025, Shown(proj_value), "projecao")>>

NoDados == <<>>

Compared(status, dados, log) == [status |-> status, dados |-> dados, log |-> log]

\* rpc_median_projection_totals when the network answers the five years as
\* it answered 2024: the median of five equal sums, None without a sum
rpc_median_projection_totals(client, net) ==
  Helper(rpc_obter_soma_por_ano_value(client, net).value, FALSE,
         rpc_obter_soma_por_ano_value(client, net).log
           \o rpc_obter_soma_por_ano_value(client, net).log
           \o rpc_obter_soma_por_ano_value(client, net).log
           \o rpc_obter_soma_por_ano_value(client, net).log
           \o rpc_obter_soma_por_ano_value(client, net).log)

\* the projection of the router: the RPC when an insumo is named, and a
\* failed RPC counts as no value; the median of the totals otherwise
RouterProjection(q, client, nets) ==
  IF Truthy(q.insumo_nome)
  THEN Helper(IF rpc_obter_projecao_ano(client, nets.proj, 2025).failed THEN NoNumber
              ELSE rpc_obter_projecao_ano(client, nets.proj, 2025).value,
              FALSE, rpc_obter_projecao_ano(client, nets.proj, 2025).log)
  ELSE rpc_median_projection_totals(client, nets.soma)

\* the end of the handler, after the sum s and the projection p
ComparedWith(s, p) ==
  IF p.failed THEN Compared(502, NoDados, s.log \o p.log)
  ELSE Compared(200, dados_comparacao(s.value, p.value), s.log \o p.log)

\* a variant of the router's handler in which a failed projection RPC is
\* fatal
ComparacaoStrict(q, client, nets) ==
  IF rpc_obter_soma_por_ano_value(client, nets.soma).failed
  THEN Compared(502, NoDados, rpc_obter_soma_por_ano_value(client, nets.soma).log)
  ELSE ComparedWith(rpc_obter_soma_por_ano_value(client, nets.soma),
                    IF Truthy(q.insumo_nome) THEN rpc_obter_projecao_ano(client, nets.proj, 2025)
                    ELSE rpc_median_projection_totals(client, nets.soma))

\* previsao_comparacao of the router from its first RPC on
ComparacaoResponse(q, client, nets) ==
  IF rpc_obter_soma_por_ano_value(client, nets.soma).failed
  THEN Compared(502, NoDados, rpc_obter_soma_por_ano_value(client, nets.soma).log)
  ELSE ComparedWith(rpc_obter_soma_por_ano_value(client, nets.soma),
                    RouterProjection(q, client, nets))

\* the sum of backend/previsao_router.py: the SDK, then HTTP, no table query
LegacySoma(client, net) ==
  IF SdkAnswered(client, net) /\ extract_number_from_rpc_result(SdkData(net)).ok
  THEN Helper(extract_number_from_rpc_result(SdkData(net)), FALSE, SdkAttempts("soma", client, net))
  ELSE IF Accepted(net.http_p)
  THEN Helper(extract_number_from_rpc_result(net.http_p.parsed), FALSE,
              SdkAttempts("soma", client, net) \o <<Via("soma", "http_plain")>>)
  ELSE Helper(IF Accepted(net.http_u) THEN extract_number_from_rpc_result(net.http_u.parsed) ELSE NoNumber,
              ~Accepted(net.http_u),
              SdkAttempts("soma", client, net)
                \o <<Via("soma", "http_plain"), Via("soma", "http_underscored")>>)

\* previsao_comparacao of backend/previsao_router.py from its first RPC
\* on: either RPC refused twice over HTTP ends the request with 502
LegacyComparacaoResponse(q, client, nets) ==
  IF LegacySoma(client, nets.soma).failed
  THEN Compared(502, NoDados, LegacySoma(client, nets.soma).log)
  ELSE ComparedWith(LegacySoma(client, nets.soma), rpc_obter_projecao_ano(client, nets.proj, 2025))

\* the body of the response
ComparacaoBody(dados) == [shape |-> "comparacao", dados |-> dados]

\* a request to /previsao/comparacao: the checks of the handler, then the
\* RPCs; c is what the RPCs give to this request
Compare(q, a, c) ==
  /\ request = NoQuery
  /\ request' = q
  /\ response' = [status |-> a.status, exc |-> a.exc,
                  body |-> ComparacaoBody(IF a.read = <<>> THEN NoDados ELSE c.dados)]
  /\ consulted' = IF a.read = <<>> THEN <<>> ELSE c.log
  /\ environ' = a.env
  /\ UNCHANGED <<etlVars, callVars, db_pool, sources>>

\* GET /api/previsao/comparacao with the transports
ComparacaoData(Q) ==
  \E q \in Q :
    \E c \in {ComparacaoResponse(q, sources.client, sources)} :
      Compare([q EXCEPT !.route = "/api/previsao/comparacao"],
              previsao_comparacao(q, environ, sources.envfile,
                                  IF c.status = 502 THEN "failed" ELSE "rows"), c)

\* GET /previsao/comparacao of backend/previsao_router.py with the transports
LegacyComparacaoData(Q) ==
  \E q \in Q :
    \E c \in {LegacyComparacaoResponse(q, sources.client, sources)} :
      Compare([q EXCEPT !.route = "legacy/previsao/comparacao"],
              legacy_previsao_comparacao(q, environ, sources.envfile,
                                         IF c.status = 502 THEN "failed" ELSE "rows"), c)

---------------------------------------------------------------------------
(* Requests and data of the query layer *)

\* the normalization program is not running
EtlIdle ==
  /\ resource = ArrayOf(<<RuleFA, RuleBCG>>)
  /\ input = EmptyDict
  /\ pc = "start"
  /\ err = "none"
  /\ mappings = <<>>
  /\ rec = EmptyDict
  /\ via = "none"
  /\ threads = <<>>

Row(sigla, insumo, ano, mes, qtde) ==
  [TX_SIGLA |-> sigla, TX_INSUMO |-> insumo, ANO |-> ano, MES |-> mes, QTDE |-> qtde]

RowPR24 == Row(<<"S", "E", "S", "-", "P", "R">>, <<"B", "c", "g">>, <<"2", "0", "2", "4">>, <<"3">>, <<"7">>)

RowPR23 == Row(<<"S", "E", "S", "-", "P", "R">>, <<"B", "c", "g">>, <<"2", "0", "2", "3">>, <<"0", "3">>, <<"5">>)

RowSP24 == Row(<<"S", "P">>, <<"F", "E", "B", "R", "E", " ", "A", "M", "A", "R", "E", "L", "A">>, <<"2", "0", "2", "4">>, <<"0", "4">>, <<"2">>)

\* neither normalizer finds a label
RowUnlabelled == Row(None, <<"a", "a", "a">>, <<"2", "0", "2", "4">>, <<"3">>, <<"4">>)

RowNoQtde == Row(<<"S", "E", "S", "-", "P", "R">>, <<"B", "c", "g">>, <<"2", "0", "2", "4">>, <<"3">>, None)

RowBadQtde == Row(<<"S", "E", "S", "-", "P", "R">>, <<"B", "c", "g">>, <<"2", "0", "2", "4">>, <<"3">>, <<"a", "b", "c">>)

Query(ano, mes, uf, fabricante) ==
  [route |-> "", ano |-> ano, mes |-> mes, uf |-> uf, fabricante |-> fabricante]

EnvNone == EmptyDict

EnvUrlOnly == [SUPABASE_URL |-> <<"h", "t", "t", "p", ":", "/", "/", "s">>]

EnvBoth == [SUPABASE_URL |-> <<"h", "t", "t", "p", ":", "/", "/", "s">>, SUPABASE_SERVICE_ROLE_KEY |-> <<"k">>]

---------------------------------------------------------------------------
(* The data sources behind _fetch_rows *)

FetchTables == {<<>>, <<RowPR23>>, <<RowPR23, RowPR24>>}

FetchQueries == {Query(ano, None, None, None) : ano \in {None, <<"2", "0", "2", "4">>}}

InitFetch ==
  /\ EtlIdle
  /\ NoRequest
  /\ db_pool \in BOOLEAN
  /\ environ \in {EnvNone, EnvUrlOnly, EnvBoth}
  /\ sources \in [table : FetchTables, rest : {"200", "500", "raises"}, file : BOOLEAN]

NextFetch == Overview(FetchQueries) \/ ApiOverview(FetchQueries)

SpecFetch == InitFetch /\ [][NextFetch]_vars

Asked(route) == request.route = route

\* Supabase gave nothing to use: not configured, failing, or no rows
RestUnavailable ==
  \/ ~RestConfigured(environ)
  \/ sources.rest # "200"
  \/ Selected(sources.table, Filters(request.ano, None, None, None)) = <<>>

\* the original statement of C17: whenever the pool exists the rows come from
\* the database and neither Supabase nor the local file is read
C17_PoolMeansDatabaseOnly ==
  (request # NoQuery /\ db_pool) => consulted = <<"db">>

(* C17: _fetch_rows of app.py consults database pool, Supabase REST and   *)
(* local file in that order; with a pool only the database is read; the   *)
(* local file is read only when there is no pool and Supabase is not      *)
(* configured, fails or returns no rows.  _fetch_rows of the router has   *)
(* no database tier: it reads Supabase, then the local file under the     *)
(* same condition, whether the pool exists or not.                        *)
C17_FetchOrder ==
  /\ Asked("/overview") =>
       /\ db_pool => consulted = <<"db">>
       /\ ~db_pool => consulted \in {<<"rest">>, <<"rest", "local">>, <<"local">>}
       /\ (\E i \in DOMAIN consulted : consulted[i] = "local") => RestUnavailable
       /\ (consulted = <<"local">>) = (~db_pool /\ ~RestConfigured(environ))
  /\ Asked("/api/overview") =>
       /\ consulted \in {<<"rest">>, <<"rest", "local">>, <<"local">>}
       /\ (\E i \in DOMAIN consulted : consulted[i] = "local") => RestUnavailable
       /\ (consulted = <<"local">>) = ~RestConfigured(environ)

\* the router answered from Supabase although the pool exists
C17_Witness ==
  /\ Asked("/api/overview")
  /\ db_pool
  /\ consulted = <<"rest">>
  /\ response.status = 200
  /\ response.body.total_doses = 7

---------------------------------------------------------------------------
(* The aggregation endpoints over small tables *)

MaxTableRows == 2

AggRows == {RowPR24, RowPR23, RowSP24, RowUnlabelled, RowNoQtde, RowBadQtde}

AggTables == DistinctSeqs(AggRows, MaxTableRows)

AggQueries ==
  {Query(ano, mes, uf, fabricante) :
     ano \in {None, <<"2", "0", "2", "4">>}, mes \in {None, <<"0", "3">>},
     uf \in {None, <<"P", "R">>}, fabricante \in {None, <<"B", "C", "G">>}}

InitAgg ==
  /\ EtlIdle
  /\ NoRequest
  /\ db_pool \in BOOLEAN
  /\ environ \in {EnvNone, EnvBoth}
  /\ sources \in [table : AggTables, rest : {"200"}, file : {TRUE}]

NextAgg == Overview(AggQueries) \/ ApiOverview(AggQueries) \/ Timeseries(AggQueries)

SpecAgg == InitAgg /\ [][NextAgg]_vars

\* what the handler of the request was given by its _fetch_rows
Got ==
  IF Asked("/api/overview")
  THEN router_fetch_rows(environ, sources,
                         Filters(request.ano, request.mes, request.uf, None))
  ELSE _fetch_rows(db_pool, environ, sources,
                   Filters(request.ano, request.mes, request.uf, request.fabricante))

\* the row r, normalized, passes the filter specification of the request:
\* exact year, zero-padded month, canonical region code, canonical label
Wanted(r) ==
  /\ Truthy(request.ano) => StrOf(Get(r, "ANO")) = request.ano
  /\ Truthy(request.mes) => ZFill2(StrOf(Get(r, "MES"))) = ZFill2(request.mes)
  /\ Truthy(request.uf) =>
       ~IsNone(Get(r, "tx_sigla_norm")) /\ Get(r, "tx_sigla_norm") = request.uf
  /\ Truthy(request.fabricante) =>
       ~IsNone(Get(r, "tx_insumo_norm")) /\ Get(r, "tx_insumo_norm") = request.fabricante

WantedRows == SelectSeq(Normed(Got.rows), Wanted)

\* the year-month key of a row whose ANO and MES are numbers
KeyOfRow(r) ==
  YearMonthKey(IntOrZero(Get(r, "ANO")).val, IntOrZero(Get(r, "MES")).val)

(* C14 (/timeseries): the response has one entry per distinct year-month *)
(* key of the rows matching the request's filters, in ascending order of *)
(* key, and each entry's quantity is the sum of QTDE over exactly the    *)
(* matching rows of its key.                                             *)
C14_SeriesOfMatchingRows ==
  (Asked("/timeseries") /\ response.status = 200) =>
    /\ \A i \in 1..Len(WantedRows) :
         \E e \in DOMAIN response.body : response.body[e].data = KeyOfRow(WantedRows[i])
    /\ \A e \in DOMAIN response.body :
         /\ \E i \in 1..Len(WantedRows) : KeyOfRow(WantedRows[i]) = response.body[e].data
         /\ response.body[e].doses_distribuidas
              = Total(SelectSeq(WantedRows,
                                LAMBDA r : KeyOfRow(r) = response.body[e].data)).val
    /\ \A e, g \in DOMAIN response.body :
         e < g => TextLess(response.body[e].data, response.body[g].data)

(* C15: in every aggregation endpoint a row whose quantity is absent or  *)
(* not a number contributes 0 and the request never ends in an error.    *)
C15_BadQuantityIsZero ==
  (request # NoQuery /\ Got.exc = "none") => response.status = 200

---------------------------------------------------------------------------
(* The forecast endpoint *)

ForecastTables == DistinctSeqs({RowPR24, RowPR23, RowSP24, RowUnlabelled}, MaxTableRows)

InitForecast ==
  /\ EtlIdle
  /\ NoRequest
  /\ db_pool \in BOOLEAN
  /\ environ \in {EnvNone, EnvBoth}
  /\ sources \in [table : ForecastTables, rest : {"200"}, file : {TRUE}]

NextForecast == Forecast(AggQueries)

SpecForecast == InitForecast /\ [][NextForecast]_vars

\* what forecast was given by its _fetch_rows
GotForecast ==
  _fetch_rows(db_pool, environ, sources,
              Filters(None, request.mes, request.uf, request.fabricante))

(* C18: forecast with mes: one point labelled 2025-MM whose value is the *)
(* average over the available years of that month's quantity only, rows  *)
(* of other months never contributing, under the uf/fabricante filters   *)
(* and whatever ano is; with no filter at all the answer is the empty    *)
(* list.                                                                 *)
C18_ForecastOfMonth ==
  Asked("/forecast") =>
    /\ ~AnyFilter(request) => response = Ok(<<>>)
    /\ (Truthy(request.mes) /\ GotForecast.exc = "none") =>
         response = ForecastOf(request,
                      YearBuckets(ForecastRowsOfMonth(request, Normed(GotForecast.rows),
                        IF Truthy(request.uf) THEN normalize_sigla(request.uf) ELSE None,
                        IF Truthy(request.fabricante)
                        THEN normalize_insumo(request.fabricante) ELSE None)))

---------------------------------------------------------------------------
(* The previsao endpoints *)

PrevisaoQueries ==
  {[route |-> "", insumo_nome |-> n, ano |-> ano] :
     n \in {None, <<>>, <<"B", "C", "G">>}, ano \in {None, <<"2", "0", "2", "3">>, <<"2", "0", "2", "4">>}}

EnvKeyOnly == [SUPABASE_SERVICE_ROLE_KEY |-> <<"k">>]

InitPrevisao ==
  /\ EtlIdle
  /\ NoRequest
  /\ db_pool = FALSE
  /\ environ \in {EnvNone, EnvUrlOnly, EnvBoth}
  /\ sources \in [envfile : {EnvNone, EnvKeyOnly, EnvBoth},
                  rpc : {"failed", "empty", "rows"}]

NextPrevisao ==
  \/ Previsao(PrevisaoQueries)
  \/ LegacyPrevisao(PrevisaoQueries)
  \/ PrevisaoComparacao(PrevisaoQueries)
  \/ LegacyPrevisaoComparacao(PrevisaoQueries)

SpecPrevisao == InitPrevisao /\ [][NextPrevisao]_vars

\* SUPABASE_URL and SUPABASE_SERVICE_ROLE_KEY are there for the handler, in
\* the environment or in the .env file
Configured == RestConfigured(ensure_loaded_backend_env(environ, sources.envfile))

NoRpc == consulted = <<>>

(* C19: /previsao validates before calling anything external: without   *)
(* insumo_nome the answer is 400; with insumo_nome and without           *)
(* SUPABASE_URL or SUPABASE_SERVICE_ROLE_KEY it is 500; in both cases no *)
(* RPC is issued.                                                        *)
C19_PrevisaoValidatesFirst ==
  (Asked("/api/previsao") \/ Asked("legacy/previsao")) =>
    /\ ~Truthy(request.insumo_nome) => response.status = 400 /\ NoRpc
    /\ (Truthy(request.insumo_nome) /\ ~Configured) => response.status = 500 /\ NoRpc
    /\ ~NoRpc => Truthy(request.insumo_nome) /\ Configured

\* insumo_nome is given, the .env file brings the key and the URL is
\* nowhere: 500 and no RPC
C19_Witness ==
  /\ Asked("/api/previsao")
  /\ request.insumo_nome = <<"B", "C", "G">>
  /\ sources.envfile = EnvKeyOnly
  /\ environ = EnvKeyOnly
  /\ response.status = 500
  /\ NoRpc

---------------------------------------------------------------------------
(* What /previsao returns for what the RPC gave *)

ForecastRow(q) ==
  <<Member("ano", JNum(<<"2", "0", "2", "5">>)), Member("quantidade", q), Member("tipo_dado", JStr(<<"p", "r", "e", "v", "i", "s", "a", "o">>))>>

HistoryRow ==
  <<Member("ano", JNum(<<"2", "0", "2", "4">>)), Member("quantidade", JNum(<<"7">>)), Member("tipo_dado", JStr(<<"h", "i", "s", "t", "o", "r", "i", "c", "o">>))>>

\* a forecast row without the member quantidade
ForecastRowBare == <<Member("ano", JNum(<<"2", "0", "2", "5">>)), Member("tipo_dado", JStr(<<"p", "r", "e", "v", "i", "s", "a", "o">>))>>

\* a forecast row whose quantidade is null and whose second member is a number
ForecastRowValor ==
  <<Member("ano", JNum(<<"2", "0", "2", "5">>)), Member("valor", JNum(<<"7">>)), Member("quantidade", JNull),
    Member("tipo_dado", JStr(<<"p", "r", "e", "v", "i", "s", "a", "o">>))>>

PayloadRows ==
  {ForecastRow(q) : q \in {JNull, JNum(<<"0">>), JNum(<<"5">>), JStr(<<"0">>), JStr(<<"a", "b", "c">>), JStr(<<" ", "7", " ">>)}}
    \cup {HistoryRow, ForecastRowBare, ForecastRowValor}

PayloadLists ==
  {<<>>, <<HistoryRow, ForecastRow(JNum(<<"0">>))>>, <<ForecastRow(JNull), HistoryRow>>}
    \cup {<<r>> : r \in PayloadRows}

Payloads ==
  {RpcFailed, RpcOther} \cup {RpcList(l) : l \in PayloadLists}
    \cup {RpcWrapped(l, <<>>) : l \in PayloadLists}
    \cup {RpcWrapped(<<>>, <<ForecastRow(JNum(<<"0">>))>>), RpcWrapped(<<>>, <<HistoryRow>>)}

PayloadQueries ==
  {[route |-> "", insumo_nome |-> n, ano |-> None, debug |-> d] :
     n \in {None, <<"B", "C", "G">>}, d \in BOOLEAN}

InitPayload ==
  /\ EtlIdle
  /\ NoRequest
  /\ db_pool = FALSE
  /\ environ \in {EnvNone, EnvBoth}
  /\ sources \in [envfile : {EnvNone}, rpc : Payloads]

NextPayload ==
  \/ PrevisaoData(PayloadQueries, "/api/previsao")
  \/ PrevisaoData(PayloadQueries, "legacy/previsao")

SpecPayload == InitPayload /\ [][NextPayload]_vars

\* /previsao got an answer from the RPC and debug is off
RpcAnswered ==
  /\ Asked("/api/previsao") \/ Asked("legacy/previsao")
  /\ consulted = <<"rpc">>
  /\ sources.rpc.kind # "failed"
  /\ ~request.debug

\* the member quantidade (or one of its other names) of the row, as the RPC
\* sent it, is null, absent or zero
RawQuantityEmpty(row) ==
  \/ _pick(row, qty_keys) = JNull
  \/ /\ _coerce_number_for_extract(_pick(row, qty_keys)).ok
     /\ _coerce_number_for_extract(_pick(row, qty_keys)).val = 0

\* a single row of type previsao whose quantity is zero or null
LoneForecastAsStated(rows) ==
  /\ Len(rows) = 1
  /\ _pick(rows[1], tipo_keys) = JStr(<<"p", "r", "e", "v", "i", "s", "a", "o">>)
  /\ RawQuantityEmpty(rows[1])

\* the original statement of C21: 404 if the list is empty or is a single
\* row of type previsao whose quantity is zero or null, otherwise 200 with
\* the list as received
C21_AsStated ==
  (RpcAnswered /\ sources.rpc.kind = "list") =>
    IF sources.rpc.items = <<>> \/ LoneForecastAsStated(sources.rpc.items)
    THEN response.status = 404
    ELSE response.status = 200 /\ response.body = ListBody(sources.rpc.items)

\* the quantity normalize_row finds in the row is None (null, absent, a text
\* that holds no number) or 0
NormalizedQuantityEmpty(row) ==
  ~normalize_row(row).quantidade.ok \/ normalize_row(row).quantidade.val = 0

(* C21: when the RPC succeeds and debug is off, /previsao answers 404 or  *)
(* 200.  It answers 404 when the payload holds no list of rows, when the  *)
(* list is empty, and when the list is a single row of type previsao      *)
(* whose quantity, as normalize_row reads it, is zero or None: null, or a *)
(* text that holds no number, the second member of the row standing in    *)
(* for a null quantidade.  Otherwise it answers 200 with the list of rows *)
(* as received, same rows in the same order.                              *)
C21_PrevisaoPayload ==
  RpcAnswered =>
    /\ response.status \in {200, 404}
    /\ response.status = 200 =>
         /\ response.body.shape = "list"
         /\ response.body.rows = RowsOf(sources.rpc)
         /\ sources.rpc.kind \in {"list", "dict"}
    /\ response.status = 404 <=>
         \/ RowsOf(sources.rpc) = <<>>
         \/ /\ Len(RowsOf(sources.rpc)) = 1
            /\ normalize_row(RowsOf(sources.rpc)[1]).tipo_dado = <<"p", "r", "e", "v", "i", "s", "a", "o">>
            /\ NormalizedQuantityEmpty(RowsOf(sources.rpc)[1])

\* a history row followed by a zero forecast is returned as it came
C21_Witness ==
  /\ RpcAnswered
  /\ sources.rpc = RpcList(<<HistoryRow, ForecastRow(JNum(<<"0">>))>>)
  /\ response.status = 200
  /\ response.body.rows = <<HistoryRow, ForecastRow(JNum(<<"0">>))>>

---------------------------------------------------------------------------
(* The transports of the 2024 sum *)

SumOf(v) == RpcList(<<<<Member("soma", v)>>>>)

SdkOutcomes == {SdkRaises, SdkGives(RpcScalar(JNum(<<"7">>))), SdkGives(RpcList(<<>>))}

HttpOutcomes ==
  {HttpRaises, HttpGives(200, SumOf(JNum(<<"5">>))), HttpGives(201, SumOf(JNull)),
   HttpGives(204, RpcOther), HttpGives(404, RpcOther)}

TableRaises == [raised |-> TRUE, status |-> 0, rows |-> <<>>]

TableGives(status, rows) == [raised |-> FALSE, status |-> status, rows |-> rows]

TableOutcomes ==
  {TableRaises, TableGives(404, <<>>),
   TableGives(200, <<<<Member("QTDE", JNum(<<"3">>))>>, <<Member("QTDE", JNull)>>>>)}

SomaNets ==
  [sdk_u : SdkOutcomes, sdk_p : SdkOutcomes, http_p : HttpOutcomes, http_u : HttpOutcomes,
   table : TableOutcomes]

InitSoma ==
  /\ EtlIdle
  /\ NoRequest
  /\ db_pool = FALSE
  /\ environ = EnvBoth
  /\ sources \in [client : BOOLEAN, net : SomaNets]

NextSoma == CallSoma

SpecSoma == InitSoma /\ [][NextSoma]_vars

Transports == <<"sdk_underscored", "sdk_plain", "http_plain", "http_underscored", "table">>

TransportRank(t) == CHOOSE i \in 1..Len(Transports) : Transports[i] = t

\* the attempt through this transport failed or yielded no number
Fruitless(net, t) ==
  IF t = "sdk_underscored"
  THEN net.sdk_u.raised \/ ~extract_number_from_rpc_result(net.sdk_u.data).ok
  ELSE IF t = "sdk_plain"
  THEN net.sdk_p.raised \/ ~extract_number_from_rpc_result(net.sdk_p.data).ok
  ELSE IF t = "http_plain"
  THEN ~Accepted(net.http_p) \/ ~extract_number_from_rpc_result(net.http_p.parsed).ok
  ELSE IF t = "http_underscored"
  THEN ~Accepted(net.http_u) \/ ~extract_number_from_rpc_result(net.http_u.parsed).ok
  ELSE net.table.raised \/ net.table.status # 200

SomaCalled == Asked("rpc_obter_soma_por_ano_value")

\* the attempts follow the fixed order, and each was made after fruitless
\* ones only
InFixedOrder ==
  \A i \in 1..Len(consulted) :
    /\ consulted[i].rpc = "soma"
    /\ \A j \in 1..(i - 1) :
         /\ TransportRank(consulted[j].via) < TransportRank(consulted[i].via)
         /\ Fruitless(sources.net, consulted[j].via)

\* the status of the HTTP attempt is outside 200..299
Non2xx(attempt) ==
  http_rpc_call(attempt).status < 200 \/ http_rpc_call(attempt).status > 299

\* the original statement of C27: fixed order, later attempts after
\* fruitless ones only, and the marker only when both HTTP attempts were
\* non-2xx and the table query did not return 200
C27_AsStated ==
  SomaCalled =>
    /\ InFixedOrder
    /\ response.failed =>
         /\ Non2xx(sources.net.http_p)
         /\ Non2xx(sources.net.http_u)
         /\ Fruitless(sources.net, "table")

(* C27: rpc_obter_soma_por_ano_value tries its transports in the order    *)
(* SDK underscored, SDK plain, HTTP plain, HTTP underscored, table query; *)
(* an attempt is made only after every earlier attempt failed or yielded  *)
(* no number; the marker rpc_failed is returned exactly when the SDK gave *)
(* no number, both HTTP attempts ended with a status other than 200 and   *)
(* 201 (a 204, or an exception counted as 502, included) and the table    *)
(* query raised or did not return 200; the table query is then the last   *)
(* attempt.                                                               *)
C27_TransportOrder ==
  SomaCalled =>
    /\ InFixedOrder
    /\ response.failed <=>
         /\ ~(SdkAnswered(sources.client, sources.net)
               /\ extract_number_from_rpc_result(SdkData(sources.net)).ok)
         /\ ~Accepted(sources.net.http_p)
         /\ ~Accepted(sources.net.http_u)
         /\ Fruitless(sources.net, "table")
    /\ response.failed => consulted[Len(consulted)].via = "table"
    /\ response.failed => ~response.value.ok

\* every transport was tried in turn and the table gave the total
C27_Witness ==
  /\ SomaCalled
  /\ Len(consulted) = 5
  /\ \A i \in 1..5 : consulted[i].via = Transports[i]
  /\ ~response.failed
  /\ response.value = [ok |-> TRUE, val |-> 3]

---------------------------------------------------------------------------
(* /previsao/comparacao over the transports *)

ComparacaoSomaNets ==
  [sdk_u : {SdkRaises, SdkGives(RpcScalar(JNum(<<"7">>)))},
   sdk_p : {SdkRaises, SdkGives(RpcScalar(JNum(<<"0">>)))},
   http_p : {HttpGives(404, RpcOther), HttpGives(200, SumOf(JNum(<<"5">>)))},
   http_u : {HttpGives(204, RpcOther), HttpGives(200, SumOf(JNull))},
   table : {TableGives(404, <<>>)}]

ComparacaoProjNets ==
  [sdk_u : {SdkRaises, SdkGives(RpcList(<<HistoryRow, ForecastRow(JNum(<<"9">>))>>))},
   sdk_p : {SdkRaises, SdkGives(RpcList(<<HistoryRow>>))},
   http_p : {HttpRaises, HttpGives(200, RpcList(<<ForecastRow(JNum(<<"0">>))>>))},
   http_u : {HttpGives(500, RpcOther), HttpGives(200, RpcOther)}]

ComparacaoQueries ==
  {[route |-> "", insumo_nome |-> n, ano |-> ano, debug |-> FALSE] :
     n \in {None, <<"B", "C", "G">>}, ano \in {<<"2", "0", "2", "3">>, <<"2", "0", "2", "4">>}}

InitComparacao ==
  /\ EtlIdle
  /\ NoRequest
  /\ db_pool = FALSE
  /\ environ \in {EnvNone, EnvBoth}
  /\ sources \in [envfile : {EnvNone}, client : BOOLEAN,
                  soma : ComparacaoSomaNets, proj : ComparacaoProjNets]

NextComparacao ==
  \/ ComparacaoData(ComparacaoQueries)
  \/ LegacyComparacaoData(ComparacaoQueries)

SpecComparacao == InitComparacao /\ [][NextComparacao]_vars

\* the request went as far as the RPCs
RpcsCalled == consulted # <<>>

\* the sum the handler got for 2024
SomaGot ==
  IF Asked("/api/previsao/comparacao")
  THEN rpc_obter_soma_por_ano_value(sources.client, sources.soma)
  ELSE LegacySoma(sources.client, sources.soma)

\* the projection the handler got for 2025
ProjGot ==
  IF Asked("/api/previsao/comparacao")
  THEN RouterProjection(request, sources.client, sources)
  ELSE rpc_obter_projecao_ano(sources.client, sources.proj, 2025)

Compared200 ==
  /\ Asked("/api/previsao/comparacao") \/ Asked("legacy/previsao/comparacao")
  /\ RpcsCalled
  /\ response.status = 200

(* C22: in the response of /previsao/comparacao a quantidade is null     *)
(* only when the value behind it, the 2024 sum or the 2025 projection,   *)
(* is absent; a value of zero is shown as zero.                          *)
C22_NullOnlyWhenAbsent ==
  Compared200 =>
    /\ response.body.dados[1].quantidade = NoNumber => ~SomaGot.value.ok
    /\ response.body.dados[2].quantidade = NoNumber => ~ProjGot.value.ok

\* every attempt at the projection RPC failed: the SDK raised or is not
\* there, and both HTTP attempts were refused
ProjectionFailed ==
  /\ ~SdkAnswered(sources.client, sources.proj)
  /\ ~Accepted(sources.proj.http_p)
  /\ ~Accepted(sources.proj.http_u)

Attempted(rpc) == \E i \in 1..Len(consulted) : consulted[i].rpc = rpc

---------------------------------------------------------------------------
(* The candidate of the diluent pass *)

RuleBlank == [pattern |-> <<"^", "$">>, vacina_normalizada |-> <<"B", "l", "a", "n", "k">>, priority |-> 10]

RuleYellow == [pattern |-> <<"^", "F", "E", "B", "R", "E", " ", "A", "M", "A", "R", "E", "L", "A">>, vacina_normalizada |-> LabelFebreAmarela, priority |-> 20]

RuleX == [pattern |-> <<"^", "X", "$">>, vacina_normalizada |-> <<"X">>, priority |-> 30]

DiluentResources ==
  {ArrayOf(q) : q \in {<<>>, <<RuleBlank>>, <<RuleYellow>>, <<RuleX>>, <<RuleX, RuleYellow>>,
                       <<RuleYellow, RuleBlank, RuleX>>}}

DiluentHeads ==
  {<<"D", "I", "L", "U", "E", "N", "T", "E", " ">>, <<"d", "i", "l", "u", "e", "n", "t", "e", " ", "p", "a", "r", "a", " ", "v", "a", "c", "i", "n", "a", " ">>, <<"D", "I", "L", "U", "E", "N", "T", "E", " ", "P", "/", "V", "A", "C", "I", "N", "A", " ", "C", "O", "N", "T", "R", "A", " ">>,
   <<"D", "I", "L", "U", "E", "N", "T", "E", " ", "V", "A", "C", "I", "N", "A", " ", "X", " ", "V", "A", "C", "I", "N", "A", " ">>, <<"D", "I", "L", "U", "E", "N", "T", "E", " ", "F", "E", "B", "R", "E", " ", "A", "M", "A", "R", "E", "L", "A", " ", "D", "I", "L", "U", "E", "N", "T", "E", " ">>,
   <<"D", "I", "L", "U", "E", "N", "T", "E", " ", "F", "E", "B", "R", "E", " ", "A", "M", "A", "R", "E", "L", "A", " ", "V", "A", "C", "I", "N", "A", " ", "A">> \o <<"\n">>, <<"V", "A", "C", "I", "N", "A", " ", "A">> \o <<"\n">> \o <<"D", "I", "L", "U", "E", "N", "T", "E", " ">>}

DiluentTails == {<<>>, <<"1", "2">>, <<"(", "-", ")">>, <<"X">>, <<"(", "X", ")", " ", "1">>, <<"F", "E", "B", "R", "E", " ", "A", "M", "A", "R", "E", "L", "A">>, <<"F", "E", "B", "R", "E", " ", "A", "M", "A", "R", "E", "L", "A", ",", " ", "1", "0">>}

DiluentTexts == {h \o t : h \in DiluentHeads, t \in DiluentTails}

DiluentRecords == {[TX_SIGLA |-> SiglaSESPR, TX_INSUMO |-> t] : t \in DiluentTexts}

InitDiluent == InitWith(DiluentResources, DiluentRecords)

SpecDiluent == InitDiluent /\ [][Next]_vars

\* the uppercased text of the input record
TxUpper == Upper(Tx)

\* normalize_record went through the diluent pass: no rule matched the raw
\* text and the uppercased text holds DILUENTE
DiluentPassRan == Normalized /\ ~SomeHit(Tx) /\ Contains(TxUpper, DILUENTE)

VacinaStarts(u) == {i \in 1..Len(u) : OccursAt(u, VACINA, i)}

\* everything after the first VACINA and its optional P/, PARA or CONTRA,
\* to the end of the text, trimmed
AfterFirstVacina(u) ==
  Strip(SubSeq(u, AfterOptional(u, Min(VacinaStarts(u)) + Len(VACINA)), Len(u)))

\* everything after the DILUENTE that starts at q, trimmed
AfterDiluenteAt(u, q) == Strip(SubSeq(u, q + Len(DILUENTE), Len(u)))

\* the candidate with every parenthesis, comma, hyphen and digit deleted,
\* trimmed
CleanedAsStated(c) ==
  Strip(SelectSeq(c, LAMBDA ch : ch \notin {"(", ")", ",", "-", "0", "1", "2", "3", "4", "5", "6", "7", "8", "9"}))

\* the rules are matched against the cleaned candidate
MatchedOnCleaned ==
  /\ via = "diluent" => LabelOfFirstHit(CleanedAsStated(DiluentCandidate(TxUpper)), Result)
  /\ (DiluentCandidate(TxUpper) # <<>> /\ SomeHit(CleanedAsStated(DiluentCandidate(TxUpper))))
       => via = "diluent"

\* the original statement of C23: the candidate is what follows VACINA
\* whenever the text has a VACINA, what follows DILUENTE only otherwise,
\* and it is cleaned before the rules are matched
C23_AsStated ==
  DiluentPassRan =>
    /\ IF Contains(TxUpper, VACINA)
       THEN DiluentCandidate(TxUpper) = AfterFirstVacina(TxUpper)
       ELSE \E q \in DiluenteStarts(TxUpper) : DiluentCandidate(TxUpper) = AfterDiluenteAt(TxUpper, q)
    /\ MatchedOnCleaned

OneLine(u) == \A i \in 1..Len(u) : u[i] # "\n"

\* a line break stands between index r and the last character of u
LineBreakFrom(u, r) == \E p \in r..(Len(u) - 1) : u[p] = "\n"

\* no VACINA of u has the rest of the text on its line
CaptureFails(u) ==
  \A i \in VacinaStarts(u) : LineBreakFrom(u, AfterOptional(u, i + Len(VACINA)))

(* C23: in a text without line breaks the candidate of the diluent pass   *)
(* is everything after VACINA (optionally followed by P/, PARA or CONTRA) *)
(* to the end of the uppercased text, and only without a VACINA what      *)
(* follows DILUENTE; when a line break that is not the last character     *)
(* follows every VACINA the capture fails and the candidate is what the   *)
(* removal of DILUENTE leaves, VACINA or not.  The candidate is cleaned   *)
(* of parentheses, commas, hyphens and digits and trimmed before the      *)
(* rules are matched against it.                                          *)
C23_CandidateExtraction ==
  DiluentPassRan =>
    /\ (OneLine(TxUpper) /\ Contains(TxUpper, VACINA)) =>
         DiluentCandidate(TxUpper) = AfterFirstVacina(TxUpper)
    /\ (OneLine(TxUpper) /\ ~Contains(TxUpper, VACINA)) =>
         DiluentCandidate(TxUpper) = AfterDiluenteAt(TxUpper, Max(DiluenteStarts(TxUpper)))
    /\ (Contains(TxUpper, VACINA) /\ CaptureFails(TxUpper)) =>
         DiluentCandidate(TxUpper) # AfterFirstVacina(TxUpper)
           /\ DiluentCandidate(TxUpper) = Strip(RemoveThroughDiluente(TxUpper))
    /\ MatchedOnCleaned

\* "DILUENTE P/VACINA CONTRA FEBRE AMARELA, 10": the candidate FEBRE
\* AMARELA, 10 is cleaned and labelled
C23_Witness ==
  /\ DiluentPassRan
  /\ Tx = <<"D", "I", "L", "U", "E", "N", "T", "E", " ", "P", "/", "V", "A", "C", "I", "N", "A", " ", "C", "O", "N", "T", "R", "A", " ", "F", "E", "B", "R", "E", " ", "A", "M", "A", "R", "E", "L", "A", ",", " ", "1", "0">>
  /\ DiluentCandidate(TxUpper) = <<"F", "E", "B", "R", "E", " ", "A", "M", "A", "R", "E", "L", "A", ",", " ", "1", "0">>
  /\ via = "diluent"
  /\ Result = LabelFebreAmarela

(* C24: no rule is matched against an empty or whitespace-only candidate: *)
(* when the candidate is empty before or after cleaning, the diluent pass *)
(* gives no label, whatever the rules.                                    *)
C24_EmptyCandidateNoLabel ==
  (DiluentPassRan /\ Strip(CleanedAsStated(DiluentCandidate(TxUpper))) = <<>>) =>
    via # "diluent"

\* the text following the first DILUENTE of u
AfterFirstDiluente(u) == AfterDiluenteAt(u, Min(DiluenteStarts(u)))

(* C25: with several DILUENTE or several VACINA in a text without line    *)
(* breaks the first occurrence wins: the candidate is the text following  *)
(* the first VACINA, or without a VACINA the text following the first     *)
(* DILUENTE, and the label stored is the one the rules give to it.        *)
C25_FirstOccurrenceWins ==
  (DiluentPassRan /\ OneLine(TxUpper)) =>
    /\ DiluentCandidate(TxUpper) =
         (IF Contains(TxUpper, VACINA) THEN AfterFirstVacina(TxUpper)
          ELSE AfterFirstDiluente(TxUpper))
    /\ SomeHit(CleanedAsStated(AfterFirstDiluente(TxUpper))) =>
         (Contains(TxUpper, VACINA) \/ via = "diluent")

---------------------------------------------------------------------------
(* The canonical code as a fixed point *)

(* C28: for every raw region value the sigla normalizer's result is       *)
(* either null or a non-empty string of at most two characters, and       *)
(* normalizing a non-null result again returns that same result.          *)
C28_CanonicalCode ==
  (Normalized /\ ~IsNone(Sigla)) =>
    /\ Len(Sigla) \in 1..2
    /\ SiglaNormOf(Sigla) = Sigla

---------------------------------------------------------------------------
(* The two copies of the ETL normalizer *)

CopyResources ==
  {ArrayOf(q) : q \in {<<>>, <<RuleFA>>, <<RuleBCG, RuleFA>>, <<RuleTail, RuleSet>>,
                       <<RuleNoPattern>>}}

CopySiglas == {SiglaSESPR, <<"A", " ", "1">>, <<" ">>, None, JsonInt}

CopyRecords ==
  {[TX_SIGLA |-> g, TX_INSUMO |-> t] : g \in CopySiglas, t \in InsumoTexts}
  \cup {[tx_sigla |-> g, tx_insumo |-> t] : g \in CopySiglas, t \in Cores}
  \cup {[TX_INSUMO |-> t] : t \in Cores}
  \cup {[TX_SIGLA |-> g] : g \in CopySiglas}

InitCopies == InitWith(CopyResources, CopyRecords)

NextCopies ==
  \/ LoadMappings
  \/ NormalizeRecord
  \/ WriteOutput
  \/ BackendNormalizeRecord
  \/ BackendWriteOutput

SpecCopies == InitCopies /\ [][NextCopies]_vars

\* normalize_record of backend/services/etl_normalize.py has returned or raised
ServicesRan == pc \in {"normalized", "done"} \/ (pc = "failed" /\ via = "raise")

\* normalize_record of backend/etl_normalize.py has returned or raised
BackendRan == pc \in {"backend_normalized", "backend_done", "backend_failed"}

\* the call that ran ended as the call n of the other copy: the same exception
\* or the same tx_insumo_norm
AgreesWith(n) ==
  /\ err = n.exc
  /\ err = "none" => rec["tx_insumo_norm"] = n.val["tx_insumo_norm"]

RegionIsText == SiglaText(input) # JsonInt

---------------------------------------------------------------------------
(* The rows after the normalization loop *)

\* a row whose region is blank
RowBlankSigla == Row(<<" ">>, <<"B", "c", "g">>, <<"2", "0", "2", "4">>, <<"3">>, <<"7">>)

\* a row with the lower-case raw columns
RowLowerKeys ==
  [tx_sigla |-> <<"S", "E", "S", "-", "P", "R">>, tx_insumo |-> <<"B", "c", "g">>, ANO |-> <<"2", "0", "2", "4">>, MES |-> <<"3">>, QTDE |-> <<"7">>]

NormRows == {RowPR24, RowSP24, RowBlankSigla, RowLowerKeys}

NormTables == DistinctSeqs(NormRows, MaxTableRows)

NormQueries == {Query(None, None, uf, None) : uf \in {None, <<"P", "R">>}}

InitNorms ==
  /\ EtlIdle
  /\ NoRequest
  /\ db_pool \in BOOLEAN
  /\ environ \in {EnvNone, EnvBoth}
  /\ sources \in [table : NormTables, rest : {"200"}, file : {TRUE}]

NextNorms == Overview(NormQueries) \/ ApiOverview(NormQueries) \/ Timeseries(NormQueries)

SpecNorms == InitNorms /\ [][NextNorms]_vars

\* the row r carries the output of the normalizer for its raw columns
CarriesNormalizerOutput(r) ==
  /\ Get(r, "tx_insumo_norm") = normalize_insumo(Get(r, "TX_INSUMO"))
  /\ Get(r, "tx_sigla_norm") = normalize_sigla(Get(r, "TX_SIGLA"))

(* C30: in every aggregation endpoint, after the normalization loop each  *)
(* fetched row carries tx_insumo_norm and tx_sigla_norm equal to the      *)
(* normalizer's output for that row's TX_INSUMO and TX_SIGLA, whichever   *)
(* data source produced the row, local-file rows that already carry these *)
(* keys included.                                                         *)
C30_RowsCarryNormalizerOutput ==
  (request # NoQuery /\ Got.exc = "none") =>
    \A i \in 1..Len(Got.rows) : CarriesNormalizerOutput(Normed(Got.rows)[i])

====
